---- MODULE Spec2Model ----
(***************************************************************************)
(* State-machine model of the perps signal dashboard core:                 *)
(*   - MarketDataFetcher (data_fetcher.py): the price aggregator, its      *)
(*     HTTP fallback with retry, and the stream reader with its backoff;   *)
(*   - Debouncer / compute_best (main.py): the debounced scan driver;      *)
(*   - SignalEngine (signal_engine.py): rolling history, pair scan,        *)
(*     classification, ranking, and the PerformanceTracker log.            *)
(* Prices are integers in units of 0.1 (so 100.0 is 1000 and 0.1 is 1).    *)
(* z-scores, thresholds and confidences are integers in units of 0.1.      *)
(***************************************************************************)
EXTENDS Integers, Sequences, FiniteSets, TLC

VARIABLES
    \* ---- MarketDataFetcher (data_fetcher.py)
    last_prices,    \* self.last_prices: dict symbol -> price
    ws,             \* self.ws: "none" (None), "open", "closed" (ws.closed)
    rpc,            \* position of the _ws_reader task
    backoff,        \* _ws_reader's local backoff (seconds)
    alchemy_on,     \* self._alchemy is not None and 'alchemy' in self._providers
    enable_synth,   \* ENABLE_SYNTHETIC_PRICES is not one of '0','false','no'
    quotes,         \* what self._alchemy.get_latest(s) answers during the call
    fpc,            \* fetch_all_prices: "idle", "gather" (loops run, not yet returned), "done"
    req,            \* the symbols argument of the call in progress / last call
    out,            \* the local list out (the return value once fpc = "done")
    missing,        \* the local list missing
    tasks,          \* the fetch_price tasks handed to asyncio.gather
    \* ---- Debouncer (main.py)
    dtasks,         \* every task trigger() created, in order; _task is the last
    inburst,        \* per trigger: did it arrive while the previous timer was pending
    \* ---- SignalEngine (signal_engine.py)
    tracked,        \* keys of self.price_history in insertion order
    price_history,  \* self.price_history: dict symbol -> list of prices
    received,       \* per symbol, every sample update_prices appended, in order
    signals,        \* the list find_cointegrated_pairs returned last
    tracker,        \* performance_tracker.signals_history
    computed,       \* how many records the last scan appended to the tracker
    update_raised,  \* did the last update_prices call raise
    quant,          \* per tracked pair, what the numerical analysis of the
                    \* current histories comes to (a pure function of them)
    last_scan,      \* [done, hist]: has a scan run, and on which price_history
    \* ---- _determine_signal
    zcfg,           \* [z, entry, exit]: the argument and the two thresholds
    zclass,         \* the class returned, "" before the call
    \* ---- compute_best and the serving cache (main.py)
    cpc,            \* position of compute_best: "idle", "save", "cache", "ws", "sse"
    best,           \* the local best = signals[0]
    cache_best,     \* what the cache holds under "best_signal" (NoSignal: nothing)
    cycle,          \* what the last compute_best cycle did so far
    cache_closed,   \* shutdown_event has run: cache.close() was awaited
    \* ---- MarketDataFetcher.__aexit__
    xpc,            \* position of __aexit__
    attempted,      \* the cleanup steps __aexit__ has started
    xraised,        \* the cleanup steps that raised
    \* ---- the numerical functions (quant.py, math_engine.py, _analyze_pair)
    nin,            \* the arguments of the call
    nout,           \* what the call returned, NotCalled before it
    \* ---- market_data_loop and signal_generation_loop (main.py)
    mloop,          \* [pc, iter, failed]: position of market_data_loop, number of the
                    \* iteration, and the step of it that raised ("" if none)
    sloop           \* the same for signal_generation_loop

fetchVars == <<last_prices, ws, rpc, backoff, alchemy_on, enable_synth,
               quotes, fpc, req, out, missing, tasks>>
debVars == <<dtasks, inburst>>
engVars == <<tracked, price_history, received, signals, tracker, computed,
             update_raised, quant, last_scan>>
clsVars == <<zcfg, zclass>>
srvVars == <<cpc, best, cache_best, cycle, cache_closed>>
shutVars == <<xpc, attempted, xraised>>
numVars == <<nin, nout>>
loopVars == <<mloop, sloop>>

vars == <<fetchVars, debVars, engVars, clsVars, srvVars, shutVars, numVars, loopVars>>

\* ------------------------------------------------------------------ helpers

Max(a, b) == IF a >= b THEN a ELSE b
Min(a, b) == IF a <= b THEN a ELSE b

\* dict[key] = value on a function whose domain is the set of keys present
Put(d, k, v) == [x \in (DOMAIN d) \cup {k} |-> IF x = k THEN v ELSE d[x]]

EmptyDict == [x \in {} |-> 0]

\* sum(...) over a list of numbers
RECURSIVE SumSeq(_)
SumSeq(s) == IF s = <<>> THEN 0 ELSE Head(s) + SumSeq(Tail(s))

\* ------------------------------------------------------- MarketDataFetcher

Coins == {"BTC", "ETH"}

\* _normalize_symbol: f"{coin}-USD-PERP"
normalize_symbol(coin) == <<coin, "-USD-PERP">>

\* symbol.replace('-USD-PERP', ''): the coin code sent to the HTTP endpoint
coin_of(symbol) == symbol[1]

Symbols == {normalize_symbol(c) : c \in Coins}

BTC == normalize_symbol("BTC")
ETH == normalize_symbol("ETH")

\* The symbol lists the model passes to fetch_all_prices: one symbol, two
\* symbols, one symbol twice.
Requests == {<<BTC>>, <<BTC, ETH>>, <<ETH, ETH>>}

FloorPrice == 1          \* max(0.1, ...)
DefaultPrice == 1000     \* 100.0
alchemy_max_age == 2     \* ALCHEMY_MAX_AGE_SEC default
RetryAttempts == 3       \* stop_after_attempt(3)
BackoffStart == 1
BackoffCap == 30

\* The draws of random.gauss(0.0, vol) the model explores: price becomes
\* prev * (1 + g).
GaussDraws == {-1, 0}

\* Prices a stream message or an HTTP response may carry for a coin; float()
\* parses "0" as well as "70.0".
WsPrices == {0, 700}
HttpPrices == {0, 500}

\* An HTTP attempt: ok = FALSE is a transport error, a non-200 status or an
\* unparsable body (the attempt raises); ok = TRUE carries mids.get(coin) as a
\* number, 0 standing for an absent coin (px_str is None -> 0.0) or "0".
HttpResponses == {[ok |-> FALSE, px |-> 0]} \cup {[ok |-> TRUE, px |-> p] : p \in HttpPrices}

\* A quote of the low-latency feed for one symbol (has = FALSE: get_latest
\* returned None); age in seconds.
NoQuote == [has |-> FALSE, price |-> 0, age |-> 0]
QuoteOptions == {NoQuote} \cup {[has |-> TRUE, price |-> 900, age |-> a] : a \in {alchemy_max_age, alchemy_max_age + 1}}

\* max(0.1, prev * (1 + random.gauss(0.0, vol)))
Jitter(prev, g) == Max(FloorPrice, prev * (1 + g))

Row(s, p, src) == [symbol |-> s, price |-> p, source |-> src]

\* A freshness test that ignores the age of the quote.
QuoteAnyAge(q) == q.has

\* age <= self._alchemy_max_age
QuoteFresh(q) == q.has /\ q.age <= alchemy_max_age

\* fetch_all_prices, first loop: one 'alchemy_wss' row per requested symbol
\* whose quote is fresh.
RECURSIVE Loop1(_, _, _, _)
Loop1(symbols, i, on, q) ==
    IF i > Len(symbols) THEN <<>>
    ELSE LET s == symbols[i]
             rest == Loop1(symbols, i + 1, on, q)
         IN IF on /\ QuoteFresh(q[s])
            THEN <<Row(s, q[s].price, "alchemy_wss")>> \o rest
            ELSE rest

\* A tag that does not look at the socket.
CacheSourceStream(w) == "hyperliquid_ws"

\* 'hyperliquid_ws' if self.ws and not self.ws.closed else 'synthetic'
CacheSource(w) == IF w = "open" THEN "hyperliquid_ws" ELSE "synthetic"

\* A second loop without the test on selected_symbols: a symbol that has its
\* 'alchemy_wss' row is looked up in the cache as well.
RECURSIVE Loop2NoSkip(_, _, _, _, _, _, _)
Loop2NoSkip(symbols, i, st, selected, w, synth, g) ==
    IF i > Len(symbols) THEN st
    ELSE LET s == symbols[i] IN
         IF s \notin DOMAIN st.lp
         THEN Loop2NoSkip(symbols, i + 1, [st EXCEPT !.missing = Append(@, s)], selected, w, synth, g)
         ELSE Loop2NoSkip(symbols, i + 1,
                          [out |-> Append(st.out, Row(s, st.lp[s], CacheSource(w))),
                           missing |-> st.missing, lp |-> st.lp],
                          selected, w, synth, g)

\* fetch_all_prices, second loop, from position i with the state st =
\* [out, missing, lp] (lp: self.last_prices as mutated by the loop so far).
RECURSIVE Loop2(_, _, _, _, _, _, _)
Loop2(symbols, i, st, selected, w, synth, g) ==
    IF i > Len(symbols) THEN st
    ELSE LET s == symbols[i] IN
         IF s \in selected THEN Loop2(symbols, i + 1, st, selected, w, synth, g)
         ELSE IF s \notin DOMAIN st.lp
              THEN Loop2(symbols, i + 1, [st EXCEPT !.missing = Append(@, s)], selected, w, synth, g)
              ELSE LET jit == (w # "open") /\ synth
                       pv == IF jit THEN Jitter(st.lp[s], g[i]) ELSE st.lp[s]
                       lp2 == IF jit THEN Put(st.lp, s, pv) ELSE st.lp
                   IN Loop2(symbols, i + 1,
                            [out |-> Append(st.out, Row(s, pv, CacheSource(w))),
                             missing |-> st.missing, lp |-> lp2],
                            selected, w, synth, g)

\* The feed's answers to the get_latest calls of one fetch_all_prices call: the
\* feed is asked only when it exists, and only about the requested symbols.
QuotesFor(symbols, on) ==
    LET asked == IF on THEN {symbols[i] : i \in 1..Len(symbols)} ELSE {}
    IN {q \in [Symbols -> QuoteOptions] : \A s \in Symbols \ asked : q[s] = NoQuote}

\* One gauss draw per position of the second loop; the loop draws only when the
\* stream is not open and synthetic prices are enabled.
DrawsFor(symbols, w, synth) ==
    IF (w # "open") /\ synth THEN [1..Len(symbols) -> GaussDraws] ELSE {[i \in 1..Len(symbols) |-> 0]}

NoRow == Row(<<"", "">>, 0, "")
NewTask == [attempts |-> 0, status |-> "pending", row |-> NoRow]

\* fetch_all_prices up to the await on asyncio.gather: both loops run without
\* an await, then one fetch_price task per missing symbol is created. With
\* nothing missing there is no task and FetchReturn follows with out as it is.
FetchStart ==
    /\ fpc \in {"idle", "done"}
    /\ \E symbols \in Requests :
       \E q \in QuotesFor(symbols, alchemy_on), g \in DrawsFor(symbols, ws, enable_synth) :
          LET o1 == Loop1(symbols, 1, alchemy_on, q)
              selected == {o1[k].symbol : k \in 1..Len(o1)}
              st == Loop2(symbols, 1, [out |-> o1, missing |-> <<>>, lp |-> last_prices],
                          selected, ws, enable_synth, g)
          IN /\ req' = symbols
             /\ quotes' = q
             /\ out' = st.out
             /\ missing' = st.missing
             /\ last_prices' = st.lp
             /\ tasks' = [k \in 1..Len(st.missing) |-> NewTask]
             /\ fpc' = "gather"
    /\ UNCHANGED <<ws, rpc, backoff, alchemy_on, enable_synth, debVars, engVars, clsVars, srvVars, shutVars, numVars, loopVars>>

\* The price fetch_price settles on for a 200 response carrying px.
HttpPrice(px, lp, symbol, synth, g) ==
    IF px = 0
    THEN IF synth
         THEN Jitter(IF symbol \in DOMAIN lp THEN lp[symbol] ELSE DefaultPrice, g)
         ELSE DefaultPrice
    ELSE px

\* What one failed attempt leaves of a task: tenacity re-runs fetch_price until
\* stop_after_attempt(3), then raises RetryError out of the wrapper.
AfterFailure(t) ==
    [t EXCEPT !.attempts = @ + 1,
              !.status = IF t.attempts + 1 >= RetryAttempts THEN "raised" ELSE "pending"]

\* One attempt of the fetch_price task k (one POST and what follows it).
HttpAttempt ==
    /\ fpc = "gather"
    /\ \E k \in DOMAIN tasks, r \in HttpResponses, g \in GaussDraws :
          /\ tasks[k].status = "pending"
          /\ IF r.ok
             THEN LET s == missing[k]
                      price == HttpPrice(r.px, last_prices, s, enable_synth, g)
                  IN /\ last_prices' = Put(last_prices, s, price)
                     /\ tasks' = [tasks EXCEPT ![k] = [attempts |-> @.attempts + 1, status |-> "ok",
                                                       row |-> Row(s, price, "hyperliquid_http")]]
             ELSE /\ tasks' = [tasks EXCEPT ![k] = AfterFailure(@)]
                  /\ UNCHANGED last_prices
    /\ UNCHANGED <<ws, rpc, backoff, alchemy_on, enable_synth, quotes, fpc, req, out, missing, debVars, engVars, clsVars, srvVars, shutVars, numVars, loopVars>>

\* A gather that gives up its results at the first task that raised.
RECURSIVE GatherRowsUntilFailure(_, _)
GatherRowsUntilFailure(ts, k) ==
    IF k > Len(ts) \/ ts[k].status # "ok" THEN <<>>
    ELSE <<ts[k].row>> \o GatherRowsUntilFailure(ts, k + 1)

\* for r in results: if isinstance(r, dict): out.append(r)
RECURSIVE GatherRows(_, _)
GatherRows(ts, k) ==
    IF k > Len(ts) THEN <<>>
    ELSE (IF ts[k].status = "ok" THEN <<ts[k].row>> ELSE <<>>) \o GatherRows(ts, k + 1)

\* asyncio.gather(..., return_exceptions=True) completes; the call returns out.
FetchReturn ==
    /\ fpc = "gather"
    /\ \A k \in DOMAIN tasks : tasks[k].status # "pending"
    /\ out' = out \o GatherRows(tasks, 1)
    /\ fpc' = "done"
    /\ missing' = <<>>
    /\ tasks' = <<>>
    /\ UNCHANGED <<last_prices, ws, rpc, backoff, alchemy_on, enable_synth, quotes, req, debVars, engVars, clsVars, srvVars, shutVars, numVars, loopVars>>

\* ------------------------------------------------------------ _ws_reader

\* A stream entry for one coin: a parsable price, or a value float() rejects.
MidEntries == {[ok |-> TRUE, px |-> p] : p \in WsPrices} \cup {[ok |-> FALSE, px |-> 0]}

MidsPayloads == UNION {[cs -> MidEntries] : cs \in (SUBSET Coins) \ {{}}}

\* An update that keeps the price a symbol already has.
ApplyAllMidsKeepFirst(lp, mids) ==
    LET good == {c \in DOMAIN mids : mids[c].ok /\ normalize_symbol(c) \notin DOMAIN lp}
        syms == {normalize_symbol(c) : c \in good}
        coinFor(s) == CHOOSE c \in good : normalize_symbol(c) = s
    IN [s \in (DOMAIN lp) \cup syms |-> IF s \in syms THEN mids[coinFor(s)].px ELSE lp[s]]

\* _apply_all_mids: every parsable entry overwrites the symbol's price.
ApplyAllMids(lp, mids) ==
    LET good == {c \in DOMAIN mids : mids[c].ok}
        syms == {normalize_symbol(c) : c \in good}
        coinFor(s) == CHOOSE c \in good : normalize_symbol(c) = s
    IN [s \in (DOMAIN lp) \cup syms |-> IF s \in syms THEN mids[coinFor(s)].px ELSE lp[s]]

\* A doubling without the cap.
NextBackoffUncapped(b) == b * 2

\* backoff = min(backoff * 2, 30)
NextBackoff(b) == Min(b * 2, BackoffCap)

\* Top of the while loop with a missing or closed socket (the only way the
\* loop comes back to its top): ws_connect and subscribe. Either may raise, which lands in the except branch (socket
\* closed and dropped, then the sleep).
ReaderConnect ==
    /\ rpc = "top"
    /\ ws # "open"
    /\ \/ /\ ws' = "open"
          /\ rpc' = "reading"
       \/ /\ ws' = "none"
          /\ rpc' = "sleep_err"
    /\ UNCHANGED <<last_prices, backoff, alchemy_on, enable_synth, quotes, fpc, req, out, missing, tasks, debVars, engVars, clsVars, srvVars, shutVars, numVars, loopVars>>

\* An allMids text message is read and applied.
ReaderMids ==
    /\ rpc = "reading"
    /\ ws = "open"
    /\ \E mids \in MidsPayloads : last_prices' = ApplyAllMids(last_prices, mids)
    /\ UNCHANGED <<ws, rpc, backoff, alchemy_on, enable_synth, quotes, fpc, req, out, missing, tasks, debVars, engVars, clsVars, srvVars, shutVars, numVars, loopVars>>

\* An ERROR message or a failing read: the except branch closes the socket,
\* sets self.ws = None and sleeps.
ReaderError ==
    /\ rpc = "reading"
    /\ ws = "open"
    /\ ws' = "none"
    /\ rpc' = "sleep_err"
    /\ UNCHANGED <<last_prices, backoff, alchemy_on, enable_synth, quotes, fpc, req, out, missing, tasks, debVars, engVars, clsVars, srvVars, shutVars, numVars, loopVars>>

\* The remote end closes: the async for ends without an exception, the socket
\* object stays in self.ws with closed = True, and the loop sleeps.
ReaderStreamEnd ==
    /\ rpc = "reading"
    /\ ws = "open"
    /\ ws' = "closed"
    /\ rpc' = "sleep_end"
    /\ UNCHANGED <<last_prices, backoff, alchemy_on, enable_synth, quotes, fpc, req, out, missing, tasks, debVars, engVars, clsVars, srvVars, shutVars, numVars, loopVars>>

\* asyncio.sleep(backoff) returns; backoff = min(backoff * 2, 30).
ReaderWake ==
    /\ rpc \in {"sleep_end", "sleep_err"}
    /\ backoff' = NextBackoff(backoff)
    /\ rpc' = "top"
    /\ UNCHANGED <<last_prices, ws, alchemy_on, enable_synth, quotes, fpc, req, out, missing, tasks, debVars, engVars, clsVars, srvVars, shutVars, numVars, loopVars>>

\* __aenter__: the first connect and subscribe succeed and the reader task is
\* created (its first pass through the loop top finds the socket open and
\* enters the read loop), or the connect raises and no reader task exists.
FetcherInit ==
    /\ last_prices = EmptyDict
    /\ \/ ws = "open" /\ rpc = "reading"
       \/ ws = "none" /\ rpc = "absent"
    /\ backoff = BackoffStart
    /\ alchemy_on \in BOOLEAN
    /\ enable_synth \in BOOLEAN
    /\ quotes = [s \in Symbols |-> NoQuote]
    /\ fpc = "idle"
    /\ req = <<>>
    /\ out = <<>>
    /\ missing = <<>>
    /\ tasks = <<>>


\* The fetcher of the specifications that leave it alone: entered with the
\* stream up, both options at their defaults, no call made.
FetcherIdle ==
    /\ last_prices = EmptyDict
    /\ ws = "open" /\ rpc = "reading"
    /\ backoff = BackoffStart
    /\ alchemy_on = FALSE
    /\ enable_synth = TRUE
    /\ quotes = [s \in Symbols |-> NoQuote]
    /\ fpc = "idle"
    /\ req = <<>>
    /\ out = <<>>
    /\ missing = <<>>
    /\ tasks = <<>>

\* ------------------------------------------------------------- Debouncer

DelayTicks == 2      \* Debouncer(1.0, compute_best): 1.0 s, in ticks of 0.5 s

\* Number of trigger() calls the model follows.
MaxTriggers == 4

\* asyncio.create_task(self._run()): the new task starts in its sleep.
NewTimer == [state |-> "sleeping", left |-> DelayTicks, fired |-> FALSE]

\* A trigger that leaves the pending task alone: what trigger() would be
\* without its cancel.
KeepPending(ts) == ts

\* if self._task and not self._task.done(): self._task.cancel()
CancelPending(ts) ==
    IF Len(ts) > 0 /\ ts[Len(ts)].state \in {"sleeping", "computing"}
    THEN [ts EXCEPT ![Len(ts)].state = "cancelled"]
    ELSE ts

\* Debouncer.trigger(), called by market_data_loop after each batch.
Trigger ==
    /\ Len(dtasks) < MaxTriggers
    /\ dtasks' = Append(CancelPending(dtasks), NewTimer)
    /\ inburst' = Append(inburst, Len(dtasks) > 0 /\ dtasks[Len(dtasks)].state = "sleeping")
    /\ UNCHANGED <<fetchVars, engVars, clsVars, srvVars, shutVars, numVars, loopVars>>

\* Half a second passes: every pending sleep comes closer to its end. A sleep
\* that has ended resumes its task before more time passes.
Tick ==
    /\ \E i \in DOMAIN dtasks : dtasks[i].state = "sleeping"
    /\ \A i \in DOMAIN dtasks : dtasks[i].state = "sleeping" => dtasks[i].left > 0
    /\ dtasks' = [i \in DOMAIN dtasks |->
                    IF dtasks[i].state = "sleeping" THEN [dtasks[i] EXCEPT !.left = @ - 1] ELSE dtasks[i]]
    /\ UNCHANGED <<inburst, fetchVars, engVars, clsVars, srvVars, shutVars, numVars, loopVars>>

\* _run: asyncio.sleep(self.delay) returns and self.coro() (compute_best) is
\* called.
Fire ==
    /\ \E i \in DOMAIN dtasks :
          /\ dtasks[i].state = "sleeping"
          /\ dtasks[i].left = 0
          /\ dtasks' = [dtasks EXCEPT ![i] = [state |-> "computing", left |-> 0, fired |-> TRUE]]
    /\ UNCHANGED <<inburst, fetchVars, engVars, clsVars, srvVars, shutVars, numVars, loopVars>>

\* _run: compute_best returns or raises (the exception is logged); the task
\* is done.
ComputeEnd ==
    /\ \E i \in DOMAIN dtasks :
          /\ dtasks[i].state = "computing"
          /\ dtasks' = [dtasks EXCEPT ![i].state = "done"]
    /\ UNCHANGED <<inburst, fetchVars, engVars, clsVars, srvVars, shutVars, numVars, loopVars>>

\* startup_event: Debouncer(1.0, compute_best), no task yet.
DebouncerInit ==
    /\ dtasks = <<>>
    /\ inburst = <<>>

\* ---------------------------------------------------------- SignalEngine

\* config.lookback_period, min_samples and max_pairs_to_track, scaled down
\* from their defaults (200, 30, 10).
lookback_period == 2
min_samples == 2
max_pairs_to_track == 2
min_confidence == 5      \* 0.5

\* Samples per symbol the model follows.
MaxReceived == 3

SOL == normalize_symbol("SOL")
EngineSymbols == {BTC, ETH, SOL}

\* Records of the tracker log the model follows: as many as one scan of all
\* the symbols can append.
MaxLog == (Cardinality(EngineSymbols) * (Cardinality(EngineSymbols) - 1)) \div 2

\* A row of a batch: ok = FALSE is a row whose price float() rejects.
PriceRow(s, p) == [symbol |-> s, ok |-> TRUE, price |-> p]
BadRow(s) == [symbol |-> s, ok |-> FALSE, price |-> 0]

\* An append that evicts already at the lookback (>= for >): what
\* update_prices would be with the comparison off by one.
AppendSampleEvictAtLimit(h, p) ==
    LET h2 == Append(h, p)
    IN IF Len(h2) >= lookback_period THEN Tail(h2) ELSE h2

\* self.price_history[symbol].append(...), then pop(0) past the lookback.
AppendSample(h, p) ==
    LET h2 == Append(h, p)
    IN IF Len(h2) > lookback_period THEN Tail(h2) ELSE h2

\* An update that logs a row that raises and goes on with the next one.
RECURSIVE UpdateRowsSkipBad(_, _, _)
UpdateRowsSkipBad(batch, i, st) ==
    IF i > Len(batch) THEN st
    ELSE LET row == batch[i]
             s == row.symbol
             new == s \notin DOMAIN st.hist
             tr == IF new THEN Append(st.tracked, s) ELSE st.tracked
             h0 == IF new THEN Put(st.hist, s, <<>>) ELSE st.hist
             r0 == IF new THEN Put(st.recv, s, <<>>) ELSE st.recv
         IN IF ~row.ok
            THEN [UpdateRowsSkipBad(batch, i + 1, [tracked |-> tr, hist |-> h0, recv |-> r0,
                                                   raised |-> st.raised])
                     EXCEPT !.raised = TRUE]
            ELSE UpdateRowsSkipBad(batch, i + 1,
                                   [tracked |-> tr,
                                    hist |-> Put(h0, s, AppendSample(h0[s], row.price)),
                                    recv |-> Put(r0, s, Append(r0[s], row.price)),
                                    raised |-> st.raised])

\* update_prices from row i on, with st = [tracked, hist, recv, raised]: the
\* loop stops at the first row that raises, the rows before it stay applied.
RECURSIVE UpdateRows(_, _, _)
UpdateRows(batch, i, st) ==
    IF i > Len(batch) THEN st
    ELSE LET row == batch[i]
             s == row.symbol
             new == s \notin DOMAIN st.hist
             \* self.price_history.setdefault(symbol, [])
             tr == IF new THEN Append(st.tracked, s) ELSE st.tracked
             h0 == IF new THEN Put(st.hist, s, <<>>) ELSE st.hist
             r0 == IF new THEN Put(st.recv, s, <<>>) ELSE st.recv
         IN IF ~row.ok
            THEN [tracked |-> tr, hist |-> h0, recv |-> r0, raised |-> TRUE]
            ELSE UpdateRows(batch, i + 1,
                            [tracked |-> tr,
                             hist |-> Put(h0, s, AppendSample(h0[s], row.price)),
                             recv |-> Put(r0, s, Append(r0[s], row.price)),
                             raised |-> FALSE])

\* What the numerical part of _analyze_pair (correlation, regression,
\* cointegration test, half-life, edge, confidence) comes to for one pair: the
\* pair is skipped by the correlation or the cointegration gate, the
\* computation raises, or a signal with an edge and a confidence is built.
SkipOutcome == [kind |-> "skip", edge |-> 0, conf |-> 0]
PairOutcomes ==
    {SkipOutcome, [kind |-> "raise", edge |-> 0, conf |-> 0]}
    \cup {[kind |-> "signal", edge |-> e, conf |-> min_confidence + 1] : e \in {5, 20}}
    \cup {[kind |-> "signal", edge |-> 20, conf |-> min_confidence]}

NoSignal == [pair |-> <<>>, edge |-> 0, conf |-> 0]

\* A gate that looks at the first leg only.
TooShortFirstLeg(h, s1, s2) == Len(h[s1]) < min_samples

\* if len(p1) < min_samples or len(p2) < min_samples: return None
TooShort(h, s1, s2) == Len(h[s1]) < min_samples \/ Len(h[s2]) < min_samples

\* An analysis that skips a pair the tracker already holds a record of.
AnalyzePairOnce(h, s1, s2, oc) ==
    IF TooShort(h, s1, s2) THEN NoSignal
    ELSE IF oc.kind # "signal" THEN NoSignal
    ELSE IF \E i \in DOMAIN tracker : tracker[i].pair = <<s1, s2>> THEN NoSignal
    ELSE [pair |-> <<s1, s2>>, edge |-> oc.edge, conf |-> oc.conf]

\* _analyze_pair: None (NoSignal) or the signal built; an exception anywhere
\* in the try block is logged and None is returned.
AnalyzePair(h, s1, s2, oc) ==
    IF TooShort(h, s1, s2) THEN NoSignal
    ELSE IF oc.kind # "signal" THEN NoSignal
    ELSE [pair |-> <<s1, s2>>, edge |-> oc.edge, conf |-> oc.conf]

\* ---- find_cointegrated_pairs: the pairs a scan analyses

\* Symbols a scan walks over, at most.
MaxTracked == 4

\* An enumeration that walks every j for every i: both orders of every pair.
RECURSIVE PairsFromBothOrders(_, _, _)
PairsFromBothOrders(i, j, n) ==
    IF i > n THEN <<>>
    ELSE IF j > n THEN PairsFromBothOrders(i + 1, 1, n)
    ELSE (IF i = j THEN <<>> ELSE <<<<i, j>>>>) \o PairsFromBothOrders(i, j + 1, n)

\* The pairs find_cointegrated_pairs walks over n keys: for i, then for j > i.
RECURSIVE PairsFrom(_, _, _)
PairsFrom(i, j, n) ==
    IF i >= n THEN <<>>
    ELSE IF j > n THEN PairsFrom(i + 1, i + 2, n)
    ELSE <<<<i, j>>>> \o PairsFrom(i, j + 1, n)

PairList(tr) == PairsFrom(1, 2, Len(tr))

\* The numerical analysis is a pure function of the two price series
\* (LocalQuant and NumPyProvider keep no state and draw no random number): q2
\* is a possible quant for the histories h2 after quant q for h when every pair
\* whose two series are the same has the same outcome, and a pair cut
\* by the sample gate, whose numerical part never runs, is put at "skip".
QuantAfter(q, h, h2, tr2, O) ==
    LET keys == {PairList(tr2)[k] : k \in 1..Len(PairList(tr2))}
    IN {q2 \in [keys -> O] :
          \A pr \in keys :
             /\ TooShort(h2, tr2[pr[1]], tr2[pr[2]]) => q2[pr] = SkipOutcome
             /\ (pr \in DOMAIN q /\ h2[tr2[pr[1]]] = h[tr2[pr[1]]] /\ h2[tr2[pr[2]]] = h[tr2[pr[2]]])
                   => q2[pr] = q[pr]}

\* Rows a batch appends for symbol s if none of its rows raises.
RowsFor(batch, s) == Cardinality({i \in DOMAIN batch : batch[i].symbol = s})

\* SignalEngine.update_prices(batch), batch drawn from B; O is what the
\* numerical analysis of the new histories may come to.
UpdatePrices(B, O) ==
    /\ \E batch \in B :
          /\ \A s \in EngineSymbols :
                (IF s \in DOMAIN received THEN Len(received[s]) ELSE 0) + RowsFor(batch, s) <= MaxReceived
          /\ LET st == UpdateRows(batch, 1, [tracked |-> tracked, hist |-> price_history,
                                             recv |-> received, raised |-> FALSE])
             IN /\ tracked' = st.tracked
                /\ price_history' = st.hist
                /\ received' = st.recv
                /\ update_raised' = st.raised
                /\ quant' \in QuantAfter(quant, price_history, st.hist, st.tracked, O)
    /\ UNCHANGED <<signals, tracker, computed, last_scan, fetchVars, debVars, clsVars, srvVars, shutVars, numVars, loopVars>>

\* Batches of the history specification: one or two rows over two symbols,
\* two prices, and rows that raise.
HistoryRows == {PriceRow(s, p) : s \in {BTC, ETH}, p \in {1, 2}} \cup {BadRow(s) : s \in {BTC, ETH}}
HistoryBatches == {<<r>> : r \in HistoryRows} \cup {<<r1, r2>> : r1 \in HistoryRows, r2 \in HistoryRows}

UpdateHistory == UpdatePrices(HistoryBatches, {SkipOutcome})

\* Batches of the scan specification: what market_data_loop passes, a row for
\* each symbol, or for the first two only. They carry one price, so a history
\* never comes back to an earlier value and quant is a function of the
\* histories.
ScanBatches == {<<PriceRow(BTC, 1), PriceRow(ETH, 1), PriceRow(SOL, 1)>>,
                <<PriceRow(BTC, 1), PriceRow(ETH, 1)>>}

UpdateScan == UpdatePrices(ScanBatches, PairOutcomes)

\* Batches of the serving specification: two symbols, at a price that is new
\* with every batch, so each batch changes both series (and none comes back
\* to an earlier value); the pair's analysis skips it or builds a signal.
NextPrice == 1 + (IF BTC \in DOMAIN received THEN Len(received[BTC]) ELSE 0)
ServeBatches == {<<PriceRow(BTC, NextPrice), PriceRow(ETH, NextPrice)>>}
ServeOutcomes == {oc \in PairOutcomes : oc.kind # "raise" /\ oc.conf # min_confidence}

UpdateServe == UpdatePrices(ServeBatches, ServeOutcomes)

\* Batches of the alignment specification: what market_data_loop passes when
\* fetch_all_prices returns a row for BTC, for ETH, or for both (a symbol
\* whose fetch failed has no row). Every row of a batch carries the number of
\* the batch as its price, so a sample tells the batch that appended it.
BatchNumber ==
    1 + Max(IF BTC \in DOMAIN received /\ received[BTC] # <<>> THEN received[BTC][Len(received[BTC])] ELSE 0,
            IF ETH \in DOMAIN received /\ received[ETH] # <<>> THEN received[ETH][Len(received[ETH])] ELSE 0)
AlignBatches ==
    {<<PriceRow(BTC, BatchNumber), PriceRow(ETH, BatchNumber)>>,
     <<PriceRow(BTC, BatchNumber)>>, <<PriceRow(ETH, BatchNumber)>>}

UpdateAlign == UpdatePrices(AlignBatches, PairOutcomes)

\* signals.sort(key=expected_edge_bps, reverse=True): a stable sort, so equal
\* edges keep their order. InsertDesc puts x after every element with an edge
\* >= its own.
RECURSIVE InsertDesc(_, _)
InsertDesc(sorted, x) ==
    IF sorted = <<>> THEN <<x>>
    ELSE IF Head(sorted).edge >= x.edge THEN <<Head(sorted)>> \o InsertDesc(Tail(sorted), x)
    ELSE <<x>> \o sorted

RECURSIVE SortDesc(_)
SortDesc(s) == IF s = <<>> THEN <<>> ELSE InsertDesc(SortDesc(SubSeq(s, 1, Len(s) - 1)), s[Len(s)])

\* signals[: max_pairs_to_track]
Truncate(s) == SubSeq(s, 1, Min(Len(s), max_pairs_to_track))

\* A filter that keeps a confidence equal to the threshold (>= for >).
AcceptedInclusive(sig) == sig # NoSignal /\ sig.conf >= min_confidence

\* signal and signal.confidence > min_confidence
Accepted(sig) == sig # NoSignal /\ sig.conf > min_confidence

\* A return that truncates before it sorts.
RankedTruncateFirst(sigs) == SortDesc(Truncate(SelectSeq(sigs, Accepted)))

\* return of find_cointegrated_pairs for the analysed signals, in pair order
Ranked(sigs) == Truncate(SortDesc(SelectSeq(sigs, Accepted)))

\* A scan that stops analysing at the first pair whose analysis raises.
RECURSIVE AnalyzeUntilRaise(_, _, _, _)
AnalyzeUntilRaise(h, tr, q, k) ==
    IF k > Len(PairList(tr)) THEN <<>>
    ELSE LET pr == PairList(tr)[k]
         IN IF q[pr].kind = "raise" /\ ~TooShort(h, tr[pr[1]], tr[pr[2]])
            THEN [n \in 1..(Len(PairList(tr)) - k + 1) |-> NoSignal]
            ELSE <<AnalyzePair(h, tr[pr[1]], tr[pr[2]], q[pr])>> \o AnalyzeUntilRaise(h, tr, q, k + 1)

\* The two loops of find_cointegrated_pairs from pair k on: what
\* _analyze_pair returns for each pair, in the order the pairs are analysed.
RECURSIVE AnalyzeAll(_, _, _, _)
AnalyzeAll(h, tr, q, k) ==
    IF k > Len(PairList(tr)) THEN <<>>
    ELSE LET pr == PairList(tr)[k]
         IN <<AnalyzePair(h, tr[pr[1]], tr[pr[2]], q[pr])>> \o AnalyzeAll(h, tr, q, k + 1)

\* A tracker that records only the signals past the confidence gate.
RecordedAccepted(sigs) == SelectSeq(sigs, Accepted)

\* The signals _analyze_pair hands to record_signal: every signal it builds,
\* before find_cointegrated_pairs looks at the confidence.
Recorded(sigs) == SelectSeq(sigs, LAMBDA x : x # NoSignal)

\* A log that keeps its newest record only.
RecordSignalLatest(log, sig) == <<sig>>

\* PerformanceTracker.record_signal: self.signals_history.append(...)
record_signal(log, sig) == Append(log, sig)

\* record_signal for each signal built, in the order they are built.
RECURSIVE RecordAll(_, _)
RecordAll(log, built) ==
    IF built = <<>> THEN log ELSE RecordAll(record_signal(log, Head(built)), Tail(built))

\* np.mean of a non-empty list, as the fraction sum / count
Mean(s) == [num |-> SumSeq(s), den |-> Len(s)]
Zero == [num |-> 0, den |-> 1]

\* PerformanceTracker.calculate_metrics
calculate_metrics(log) ==
    IF log = <<>>
    THEN [total_signals |-> 0, avg_confidence |-> Zero, avg_expected_edge |-> Zero]
    ELSE [total_signals |-> Len(log),
          avg_confidence |-> Mean([i \in DOMAIN log |-> log[i].conf]),
          avg_expected_edge |-> Mean([i \in DOMAIN log |-> log[i].edge])]

\* find_cointegrated_pairs on the engine's state: every pair analysed once,
\* each built signal recorded by the tracker, the accepted ones sorted and
\* truncated. Nothing but the tracker log is written.
FindCointegratedPairs ==
    LET sigs == AnalyzeAll(price_history, tracked, quant, 1)
        built == Recorded(sigs)
    IN /\ Len(tracker) + Len(built) <= MaxLog
       /\ tracker' = RecordAll(tracker, built)
       /\ computed' = Len(built)
       /\ signals' = Ranked(sigs)
       /\ last_scan' = [done |-> TRUE, hist |-> price_history]
       /\ UNCHANGED <<tracked, price_history, received, update_raised, quant>>

\* A scan on its own (signal_generation_loop's call, its result left aside).
Scan ==
    /\ FindCointegratedPairs
    /\ UNCHANGED <<fetchVars, debVars, clsVars, srvVars, shutVars, numVars, loopVars>>

\* SignalEngine.__init__
EngineInit ==
    /\ tracked = <<>>
    /\ price_history = EmptyDict
    /\ received = EmptyDict
    /\ signals = <<>>
    /\ tracker = <<>>
    /\ computed = 0
    /\ update_raised = FALSE
    /\ quant = EmptyDict
    /\ last_scan = [done |-> FALSE, hist |-> EmptyDict]

\* ------------------------------------------------------------ compute_best

\* What one compute_best cycle has done: how save_signal ended ("" not
\* called, "ok", "failed"), and whether the cache write and the two broadcasts
\* were made; done once the coroutine has returned.
NewCycle == [save |-> "", cached |-> FALSE, ws |-> FALSE, sse |-> FALSE, done |-> FALSE]

\* A compute_best that gives the cycle up when save_signal raises.
AfterSaveOrAbort(ok) == IF ok THEN "cache" ELSE "idle"

\* try: await save_signal(best) / except Exception: logger.warning(...): the
\* next statement is reached either way.
AfterSave(ok) == "cache"

\* compute_best up to its first await: the scan, and with an empty result the
\* coroutine returns at once (if signals: ... is skipped).
ComputeStart ==
    /\ cpc = "idle"
    /\ FindCointegratedPairs
    /\ IF signals' = <<>>
       THEN /\ cycle' = [NewCycle EXCEPT !.done = TRUE]
            /\ UNCHANGED <<cpc, best>>
       ELSE /\ cycle' = NewCycle
            /\ best' = signals'[1]
            /\ cpc' = "save"
    /\ UNCHANGED <<cache_best, cache_closed, fetchVars, debVars, clsVars, shutVars, numVars, loopVars>>

\* await save_signal(best), which returns or raises.
ComputeSave ==
    /\ cpc = "save"
    /\ \E ok \in BOOLEAN :
          /\ cycle' = [cycle EXCEPT !.save = IF ok THEN "ok" ELSE "failed"]
          /\ cpc' = AfterSave(ok)
    /\ UNCHANGED <<best, cache_best, cache_closed, fetchVars, debVars, engVars, clsVars, shutVars, numVars, loopVars>>

\* await cache.set("best_signal", payload, ttl=settings.cache_ttl)
ComputeCache ==
    /\ cpc = "cache"
    /\ cache_best' = best
    /\ cycle' = [cycle EXCEPT !.cached = TRUE]
    /\ cpc' = "ws"
    /\ UNCHANGED <<best, cache_closed, fetchVars, debVars, engVars, clsVars, shutVars, numVars, loopVars>>

\* await broadcast_signal(best): a send to every connected websocket, a
\* failing send dropping that websocket only.
ComputeBroadcastWs ==
    /\ cpc = "ws"
    /\ cycle' = [cycle EXCEPT !.ws = TRUE]
    /\ cpc' = "sse"
    /\ UNCHANGED <<best, cache_best, cache_closed, fetchVars, debVars, engVars, clsVars, shutVars, numVars, loopVars>>

\* await broadcast_sse(payload), then compute_best returns.
ComputeBroadcastSse ==
    /\ cpc = "sse"
    /\ cycle' = [cycle EXCEPT !.sse = TRUE, !.done = TRUE]
    /\ cpc' = "idle"
    /\ UNCHANGED <<best, cache_best, cache_closed, fetchVars, debVars, engVars, clsVars, shutVars, numVars, loopVars>>

\* The ttl of the "best_signal" entry runs out.
CacheExpire ==
    /\ cache_best # NoSignal
    /\ cache_best' = NoSignal
    /\ UNCHANGED <<cpc, best, cycle, cache_closed, fetchVars, debVars, engVars, clsVars, shutVars, numVars, loopVars>>

\* get_current_signal: 404 when cache.get("best_signal") gives nothing,
\* else the cached payload.
get_current_signal(cached) ==
    IF cached = NoSignal THEN [status |-> 404, data |-> NoSignal] ELSE [status |-> 200, data |-> cached]

\* Module load: nothing computed, nothing cached.
ServeInit ==
    /\ cpc = "idle"
    /\ best = NoSignal
    /\ cache_best = NoSignal
    /\ cycle = NewCycle
    /\ cache_closed = FALSE

\* ----------------------------------------------------------------- __aexit__

CleanupSteps == {"cancel_reader", "unsubscribe", "close_ws", "stop_alchemy", "close_session"}

\* if self._ws_task: self._ws_task.cancel() -- then on to the socket, if any.
AexitBegin ==
    /\ xpc = "running"
    /\ IF rpc # "absent"
       THEN rpc' = "cancelled" /\ attempted' = attempted \cup {"cancel_reader"}
       ELSE UNCHANGED <<rpc, attempted>>
    /\ xpc' = IF ws # "none" THEN "unsubscribe" ELSE "alchemy"
    /\ UNCHANGED <<last_prices, ws, backoff, alchemy_on, enable_synth, quotes, fpc, req, out,
                   missing, tasks, xraised, debVars, engVars, clsVars, srvVars, numVars, loopVars>>

\* try: await self._ws_unsubscribe_all_mids() / except Exception: pass
AexitUnsubscribe ==
    /\ xpc = "unsubscribe"
    /\ attempted' = attempted \cup {"unsubscribe"}
    /\ \E raises \in BOOLEAN : xraised' = IF raises THEN xraised \cup {"unsubscribe"} ELSE xraised
    /\ xpc' = "close_ws"
    /\ UNCHANGED <<fetchVars, debVars, engVars, clsVars, srvVars, numVars, loopVars>>

\* await self.ws.close(), outside any try: an exception leaves __aexit__.
AexitCloseWs ==
    /\ xpc = "close_ws"
    /\ attempted' = attempted \cup {"close_ws"}
    /\ \E raises \in BOOLEAN :
          IF raises
          THEN /\ xraised' = xraised \cup {"close_ws"}
               /\ xpc' = "raised"
               /\ UNCHANGED ws
          ELSE /\ ws' = "closed"
               /\ xpc' = "alchemy"
               /\ UNCHANGED xraised
    /\ UNCHANGED <<last_prices, rpc, backoff, alchemy_on, enable_synth, quotes, fpc, req, out,
                   missing, tasks, debVars, engVars, clsVars, srvVars, numVars, loopVars>>

\* if self._alchemy is not None: try: await self._alchemy.stop() / except: pass
AexitStopAlchemy ==
    /\ xpc = "alchemy"
    /\ IF alchemy_on
       THEN /\ attempted' = attempted \cup {"stop_alchemy"}
            /\ \E raises \in BOOLEAN : xraised' = IF raises THEN xraised \cup {"stop_alchemy"} ELSE xraised
       ELSE UNCHANGED <<attempted, xraised>>
    /\ xpc' = "session"
    /\ UNCHANGED <<fetchVars, debVars, engVars, clsVars, srvVars, numVars, loopVars>>

\* if self.session: await self.session.close()
AexitCloseSession ==
    /\ xpc = "session"
    /\ attempted' = attempted \cup {"close_session"}
    /\ \E raises \in BOOLEAN :
          IF raises
          THEN xraised' = xraised \cup {"close_session"} /\ xpc' = "raised"
          ELSE UNCHANGED xraised /\ xpc' = "exited"
    /\ UNCHANGED <<fetchVars, debVars, engVars, clsVars, srvVars, numVars, loopVars>>

\* Inside the async with block: __aexit__ not yet called.
ShutdownInit ==
    /\ xpc = "running"
    /\ attempted = {}
    /\ xraised = {}

\* ------------------------------------------------------- shutdown_event

\* shutdown_event: await cache.close(), and nothing else: the handler does
\* not touch the market_data_loop task (whose async with block holds the
\* fetcher and its reader) nor the Debouncer's pending task.
ShutdownEvent ==
    /\ ~cache_closed
    /\ cache_closed' = TRUE
    /\ UNCHANGED <<cpc, best, cache_best, cycle, fetchVars, debVars, engVars, clsVars, shutVars, numVars, loopVars>>

\* market_data_loop's debouncer.trigger() after a batch: the loop runs inside
\* the async with block, so only until __aexit__ is entered.
LoopTrigger ==
    /\ xpc = "running"
    /\ Trigger

\* --------------------------- market_data_loop and signal_generation_loop

\* Iterations of each loop the model follows.
MaxIterations == 3

NoLoop == [pc |-> "absent", iter |-> 0, failed |-> ""]

\* A loop without its try block: the exception leaves the while loop and the
\* task ends.
OnErrorEnd(loop, step) == [loop EXCEPT !.pc = "ended", !.failed = step]

\* except Exception as e: logger.error(...), and the statement after the try
\* block, await asyncio.sleep(settings.update_interval), is reached.
OnError(loop, step) == [loop EXCEPT !.pc = "sleep", !.failed = step]

\* What fetch_all_prices hands to update_prices: a row per symbol, or (were a
\* source to give a price float() rejects) a batch whose second row raises.
LoopBatches == {<<PriceRow(BTC, 1), PriceRow(ETH, 1)>>, <<PriceRow(BTC, 1), BadRow(ETH)>>}

\* market_data_loop from the top of the try block to its next await:
\* await fetcher.fetch_all_prices(...) returns a batch or raises, and
\* signal_engine.update_prices(prices) runs at once on the batch.
MarketFetch ==
    /\ mloop.pc = "fetch"
    /\ \/ /\ mloop' = OnError(mloop, "fetch")
          /\ UNCHANGED engVars
       \/ \E batch \in LoopBatches :
             LET st == UpdateRows(batch, 1, [tracked |-> tracked, hist |-> price_history,
                                             recv |-> received, raised |-> FALSE])
             IN /\ tracked' = st.tracked
                /\ price_history' = st.hist
                /\ received' = st.recv
                /\ update_raised' = st.raised
                /\ quant' \in QuantAfter(quant, price_history, st.hist, st.tracked, ServeOutcomes)
                /\ mloop' = IF st.raised THEN OnError(mloop, "update") ELSE [mloop EXCEPT !.pc = "cache"]
                /\ UNCHANGED <<signals, tracker, computed, last_scan>>
    /\ UNCHANGED <<sloop, fetchVars, debVars, clsVars, srvVars, shutVars, numVars>>

\* await cache.set("latest_prices", ...) returns or raises; after it the
\* provider status is updated and, with event_driven_compute (no
\* signal_generation_loop task), debouncer.trigger() is called.
MarketCache ==
    /\ mloop.pc = "cache"
    /\ \/ /\ mloop' = OnError(mloop, "cache")
          /\ UNCHANGED debVars
       \/ /\ mloop' = [mloop EXCEPT !.pc = "sleep"]
          /\ IF sloop.pc = "absent"
             THEN /\ dtasks' = Append(CancelPending(dtasks), NewTimer)
                  /\ inburst' = Append(inburst, Len(dtasks) > 0 /\ dtasks[Len(dtasks)].state = "sleeping")
             ELSE UNCHANGED debVars
    /\ UNCHANGED <<sloop, fetchVars, engVars, clsVars, srvVars, shutVars, numVars>>

\* await asyncio.sleep(settings.update_interval) returns: the next iteration.
MarketSleep ==
    /\ mloop.pc = "sleep"
    /\ mloop.iter < MaxIterations
    /\ mloop' = [pc |-> "fetch", iter |-> mloop.iter + 1, failed |-> ""]
    /\ UNCHANGED <<sloop, fetchVars, debVars, engVars, clsVars, srvVars, shutVars, numVars>>

\* signal_generation_loop: await asyncio.sleep(5) returns.
SignalStart ==
    /\ sloop.pc = "start"
    /\ sloop' = [pc |-> "compute", iter |-> 1, failed |-> ""]
    /\ UNCHANGED <<mloop, fetchVars, debVars, engVars, clsVars, srvVars, shutVars, numVars>>

\* await compute_best() within the try block, as one step: the scan, and for
\* a non-empty result the cache write and the broadcasts, or an exception of
\* cache.set that leaves compute_best.
SignalCompute ==
    /\ sloop.pc = "compute"
    /\ cpc = "idle"
    /\ FindCointegratedPairs
    /\ IF signals' = <<>>
       THEN /\ cycle' = [NewCycle EXCEPT !.done = TRUE]
            /\ sloop' = [sloop EXCEPT !.pc = "sleep"]
            /\ UNCHANGED <<best, cache_best>>
       ELSE /\ best' = signals'[1]
            /\ \/ /\ cache_best' = signals'[1]
                  /\ cycle' = [save |-> "ok", cached |-> TRUE, ws |-> TRUE, sse |-> TRUE, done |-> TRUE]
                  /\ sloop' = [sloop EXCEPT !.pc = "sleep"]
               \/ /\ cycle' = [NewCycle EXCEPT !.save = "ok"]
                  /\ sloop' = OnError(sloop, "compute")
                  /\ UNCHANGED cache_best
    /\ UNCHANGED <<mloop, cpc, cache_closed, fetchVars, debVars, clsVars, shutVars, numVars>>

SignalSleep ==
    /\ sloop.pc = "sleep"
    /\ sloop.iter < MaxIterations
    /\ sloop' = [pc |-> "compute", iter |-> sloop.iter + 1, failed |-> ""]
    /\ UNCHANGED <<mloop, fetchVars, debVars, engVars, clsVars, srvVars, shutVars, numVars>>

\* startup_event: create_task(market_data_loop()), and
\* create_task(signal_generation_loop()) unless event_driven_compute.
LoopInit ==
    /\ mloop = [pc |-> "fetch", iter |-> 1, failed |-> ""]
    /\ sloop \in {NoLoop, [pc |-> "start", iter |-> 0, failed |-> ""]}

\* The loops of the specifications that do not follow them.
LoopIdle ==
    /\ mloop = NoLoop
    /\ sloop = NoLoop

\* ------------------------------------------------------ _determine_signal

z_score_entry == 20      \* 2.0
z_score_exit == 5        \* 0.5

\* Largest |z| the model classifies (3.0).
MaxZ == 30

\* The threshold pairs (entry, exit) the model configures: the defaults, equal
\* thresholds, an exit above the entry, a zero entry.
Thresholds == {<<z_score_entry, z_score_exit>>, <<10, 10>>, <<5, 10>>, <<0, 5>>}

Abs(x) == IF x < 0 THEN -x ELSE x

\* A classification with inclusive entry comparisons (>= and <=).
determine_signal_inclusive(z, entry, exit) ==
    IF z >= entry THEN "SHORT_SPREAD"
    ELSE IF z <= -entry THEN "LONG_SPREAD"
    ELSE IF Abs(z) < exit THEN "NEUTRAL"
    ELSE "HOLD"

\* _determine_signal
determine_signal(z, entry, exit) ==
    IF z > entry THEN "SHORT_SPREAD"
    ELSE IF z < -entry THEN "LONG_SPREAD"
    ELSE IF Abs(z) < exit THEN "NEUTRAL"
    ELSE "HOLD"

Classify ==
    /\ zclass = ""
    /\ zclass' = determine_signal(zcfg.z, zcfg.entry, zcfg.exit)
    /\ UNCHANGED <<zcfg, fetchVars, debVars, engVars, srvVars, shutVars, numVars, loopVars>>

\* The next z-score arrives.
NextZ ==
    /\ zclass # ""
    /\ \E z \in (-MaxZ)..MaxZ : zcfg' = [zcfg EXCEPT !.z = z]
    /\ zclass' = ""
    /\ UNCHANGED <<fetchVars, debVars, engVars, srvVars, shutVars, numVars, loopVars>>

ClassifyIdle ==
    /\ zcfg = [z |-> 0, entry |-> z_score_entry, exit |-> z_score_exit]
    /\ zclass = ""

ClassifyInit ==
    /\ zcfg \in {[z |-> 0, entry |-> t[1], exit |-> t[2]] : t \in Thresholds}
    /\ zclass = ""


\* ------------------------------------------------- numerical functions

\* A call that has not returned yet.
NotCalled == [called |-> FALSE]
Returned(v) == [called |-> TRUE, v |-> v]

\* calculate_confidence works on a p-value in tenths, a half-life in tenths of
\* a period, a spread deviation in hundredths and a sample count; the result
\* is in units of 1 / ConfUnit, the common denominator of its four terms
\* (ConfUnit is 1.0).
ConfUnit == 10 * 29 * 200

\* max(0.0, 1 - pval) * 0.4
CointTerm(pval) == Max(0, 10 - pval) * (4 * 580)

\* (1 - (min(half_life, 30.0) - 1) / 29.0) * 0.3
HalfLifeTerm(half_life) == (300 - Min(half_life, 300)) * 60

\* max(0.0, 1 - abs(sstd - optimal_vol) / optimal_vol) * 0.2, optimal_vol = 0.02
VolTerm(sstd) == Max(0, 2 - Abs(sstd - 2)) * 5800

\* min(1.0, n / 200.0) * 0.1
SampleTerm(n) == Min(200, n) * 29

\* LocalQuant.calculate_confidence
calculate_confidence(pval, half_life, sstd, n) ==
    CointTerm(pval) + HalfLifeTerm(half_life) + VolTerm(sstd) + SampleTerm(n)

\* The arguments the model calls calculate_confidence with: p-values 0, 0.5,
\* 1; half-lives 0, 0.5, 1, 15, 30; deviations 0 to 0.05; counts 0 to 300.
ConfidenceInputs ==
    {[op |-> "confidence", pval |-> p, half_life |-> h, sstd |-> s, n |-> n] :
        p \in {0, 5, 10}, h \in {0, 5, 10, 150, 300}, s \in {0, 2, 4, 5}, n \in {0, 100, 200, 300}}

ApplyConfidence ==
    /\ nin.op = "confidence"
    /\ ~nout.called
    /\ nout' = Returned(calculate_confidence(nin.pval, nin.half_life, nin.sstd, nin.n))
    /\ UNCHANGED <<nin, loopVars, fetchVars, debVars, engVars, clsVars, srvVars, shutVars>>

\* ---- NumPyProvider.compute('half_life')

HalfLifeCap == 30        \* min(hl, 30.0) and return 30.0

\* Powers of the decay ratio are followed to five decimal places.
Scale == 10 * 10 * 10 * 10 * 10

\* A floating-point result: nan, or the number v.
NaN == [nan |-> TRUE, v |-> 0]
Num(v) == [nan |-> FALSE, v |-> v]

\* spread.shift(1).dropna() and what follows it in time: the products the
\* least-squares fit of spread_diff on spread_lag is made of.
SumLagCur(spread) == SumSeq([t \in 1..(Len(spread) - 1) |-> spread[t] * spread[t + 1]])
SumLagLag(spread) == SumSeq([t \in 1..(Len(spread) - 1) |-> spread[t] * spread[t]])

\* -np.log(2) / np.log(1 - alpha) for 0 < 1 - alpha = num / den, cut at the
\* cap and rounded down to whole periods: the largest k <= HalfLifeCap with
\* (num / den)^k >= 1/2; x is (num / den)^k.
RECURSIVE HalfLifeFloor(_, _, _, _)
HalfLifeFloor(num, den, k, x) ==
    IF k = HalfLifeCap THEN k
    ELSE LET x2 == (x * num) \div den
         IN IF 2 * x2 < Scale THEN k ELSE HalfLifeFloor(num, den, k + 1, x2)

\* compute('half_life'): alpha = -lstsq(spread_lag, spread_diff), so
\* 1 - alpha = sum(lag * cur) / sum(lag * lag) (lstsq answers 0 for a lag
\* that is all zeros). alpha <= 0 returns 30.0; for alpha > 0 the logarithm
\* of 1 - alpha is a number when alpha < 1, -inf when alpha = 1 (hl = 0.0) and
\* nan when alpha > 1, and min(nan, 30.0) is nan.
half_life(spread) ==
    LET num == SumLagCur(spread)
        den == SumLagLag(spread)
    IN IF den = 0 \/ num >= den THEN Num(HalfLifeCap)
       ELSE IF num > 0 THEN Num(HalfLifeFloor(num, den, 0, Scale))
       ELSE IF num = 0 THEN Num(0)
       ELSE NaN

\* The spreads the model fits: three points between -2 and 2 that are not all
\* equal, and two slowly decaying ones.
HalfLifeInputs ==
    {[op |-> "half_life", spread |-> sp] :
        sp \in ({<<a, b, c>> : a \in -2..2, b \in -2..2, c \in -2..2} \ {<<a, a, a>> : a \in -2..2})
               \cup {<<50, 49, 48>>, <<10, 9, 8>>}}

ApplyHalfLife ==
    /\ nin.op = "half_life"
    /\ ~nout.called
    /\ nout' = Returned(half_life(nin.spread))
    /\ UNCHANGED <<nin, loopVars, fetchVars, debVars, engVars, clsVars, srvVars, shutVars>>

\* ---- _analyze_pair after the sample gate, and the quant provider

min_abs_correlation == 3          \* 0.3, in tenths
min_cointegration_pvalue == 5     \* 0.05, in hundredths

Providers == {"local", "deepseek"}

\* LocalQuant.__init__ sets self.engine; DeepseekQuant.__init__ replaces it
\* and does not call it, so a DeepseekQuant has no attribute engine.
has_engine(provider) == provider = "local"

\* The operations of the provider that go through self.engine.compute.
EngineOps == {"hedge_ratio", "cointegration", "half_life"}

\* The outcome of a provider call whose body, run to its end, gives value:
\* reading a missing self.engine raises AttributeError.
Raised == [raised |-> TRUE, val |-> NaN]
ProviderCall(provider, op, value) ==
    IF op \in EngineOps /\ ~has_engine(provider) THEN Raised ELSE [raised |-> FALSE, val |-> value]

\* A gate that lets through a p-value up to 0.01 above the threshold.
GreaterByOne(x, y) == ~x.nan /\ x.v > y + 1

\* x < y and x > y on floats: every comparison with nan is False.
Less(x, y) == ~x.nan /\ x.v < y
Greater(x, y) == ~x.nan /\ x.v > y

\* abs(corr)
FAbs(x) == IF x.nan THEN x ELSE Num(Abs(x.v))

None == [built |-> FALSE, correlation |-> NaN, cointegration_pvalue |-> NaN]

\* _analyze_pair from line 88 on, for a pair with enough samples: corr is what
\* p1.corr(p2) gives, coint what the body of test_cointegration comes to (a
\* p-value, nan, or an exception of the library), coint_check the option
\* enable_coint_check. The result is the signal (None: no signal) and the
\* provider operations that were invoked, in order. Any exception is caught
\* at line 122 and None is returned.
analyze_numeric(provider, corr, coint, coint_check) ==
    IF Less(FAbs(corr), min_abs_correlation) THEN [sig |-> None, calls |-> <<>>]
    ELSE LET hedge == ProviderCall(provider, "hedge_ratio", Num(1)) IN
         IF hedge.raised THEN [sig |-> None, calls |-> <<"hedge_ratio">>]
         ELSE LET pv == IF coint.raised THEN Raised ELSE ProviderCall(provider, "cointegration", coint.val) IN
              IF pv.raised THEN [sig |-> None, calls |-> <<"hedge_ratio", "cointegration">>]
              ELSE IF coint_check /\ Greater(pv.val, min_cointegration_pvalue)
                   THEN [sig |-> None, calls |-> <<"hedge_ratio", "cointegration">>]
                   ELSE LET hl == ProviderCall(provider, "half_life", Num(1)) IN
                        IF hl.raised
                        THEN [sig |-> None, calls |-> <<"hedge_ratio", "cointegration", "half_life">>]
                        ELSE [sig |-> [built |-> TRUE, correlation |-> corr, cointegration_pvalue |-> pv.val],
                              calls |-> <<"hedge_ratio", "cointegration", "half_life",
                                          "expected_edge", "confidence">>]

\* The pairs the model analyses: a correlation of -1, -0.2, 0, 0.2, 0.3, 1 or
\* undefined (a constant leg); a cointegration test that raises or gives 0,
\* 0.05, 0.06 or nan; the check on or off; either provider.
Correlations == {NaN} \cup {Num(c) : c \in {-10, -2, 0, 2, 3, 10}}
CointOutcomes == {Raised} \cup {[raised |-> FALSE, val |-> v] : v \in {NaN, Num(0), Num(5), Num(6)}}
AnalyzeInputs ==
    {[op |-> "analyze", provider |-> pr, corr |-> c, coint |-> co, coint_check |-> ck] :
        pr \in Providers, c \in Correlations, co \in CointOutcomes, ck \in BOOLEAN}

ApplyAnalyze ==
    /\ nin.op = "analyze"
    /\ ~nout.called
    /\ nout' = Returned(analyze_numeric(nin.provider, nin.corr, nin.coint, nin.coint_check))
    /\ UNCHANGED <<nin, loopVars, fetchVars, debVars, engVars, clsVars, srvVars, shutVars>>

\* ---- _apply_all_mids over a sequence of stream messages

\* self.last_price_ts[symbol] = datetime.now(timezone.utc), for every entry of
\* mids whose price float() accepts; now is the time of the call.
StampAllMids(ts, mids, now) ==
    LET syms == {normalize_symbol(c) : c \in {c \in DOMAIN mids : mids[c].ok}}
    IN [s \in (DOMAIN ts) \cup syms |-> IF s \in syms THEN now ELSE ts[s]]

\* The messages msgs[k..] applied one after the other to st = [prices, ts],
\* message k at time k.
RECURSIVE ApplyStream(_, _, _)
ApplyStream(st, msgs, k) ==
    IF k > Len(msgs) THEN st
    ELSE ApplyStream([prices |-> ApplyAllMids(st.prices, msgs[k]),
                      ts |-> StampAllMids(st.ts, msgs[k], k)], msgs, k + 1)

\* Number of messages of a stream the model applies.
MaxMsgs == 2

\* The streams the model applies: one to MaxMsgs messages, on an empty price
\* map or on one that holds a price for BTC written at time 0.
StreamInputs ==
    {[op |-> "mids", prices |-> pm, msgs |-> ms] :
        pm \in {EmptyDict, [s \in {BTC} |-> 500]},
        ms \in UNION {[1..n -> MidsPayloads] : n \in 1..MaxMsgs}}

ApplyMids ==
    /\ nin.op = "mids"
    /\ ~nout.called
    /\ nout' = Returned(ApplyStream([prices |-> nin.prices, ts |-> [s \in DOMAIN nin.prices |-> 0]],
                                    nin.msgs, 1))
    /\ UNCHANGED <<nin, loopVars, fetchVars, debVars, engVars, clsVars, srvVars, shutVars>>

\* ---- _ws_reader: one TEXT message

\* What a text message parses to. json: "invalid" (json.loads raises),
\* "object" (a dict) or "other" (a list, a number, a string, null). For an
\* object, channel is "missing", "ack" ('subscriptionResponse'), "allMids" or
\* "other"; data is "missing", "dict" or "other"; within a dict data, mids is
\* "missing", "falsy" (None, {}, [], "", 0), "dict" (a non-empty dict, held
\* in payload) or "other" (a non-empty list or string, a number).
NoPayload == [c \in {} |-> [ok |-> FALSE, px |-> 0]]
Text(j, ch, d, m, pl) == [json |-> j, channel |-> ch, data |-> d, mids |-> m, payload |-> pl]
Channels == {"missing", "ack", "allMids", "other"}
TextMessages ==
    {Text("invalid", "missing", "missing", "missing", NoPayload),
     Text("other", "missing", "missing", "missing", NoPayload)}
    \cup {Text("object", ch, d, "missing", NoPayload) : ch \in Channels, d \in {"missing", "other"}}
    \cup {Text("object", ch, "dict", m, NoPayload) : ch \in Channels, m \in {"missing", "falsy", "other"}}
    \cup {Text("object", ch, "dict", "dict", pl) : ch \in Channels, pl \in MidsPayloads}

\* The body of the async for for one TEXT message, on the price map lp: the
\* map afterwards and where control goes, "read" (the next message of the
\* same connection) or "except" (an exception left the loop for the handler
\* at line 133, which closes the socket and reconnects).
\*   json.loads raising is caught and the message skipped; payload.get on a
\*   value that is not a dict raises AttributeError; the ack is skipped; an
\*   allMids message with a dict data applies data.get('mids') or {}, and
\*   _apply_all_mids calls mids.items(), which raises on a value that is not
\*   a dict; every other message falls through.
handle_text(lp, msg) ==
    IF msg.json = "invalid" THEN [prices |-> lp, next |-> "read"]
    ELSE IF msg.json = "other" THEN [prices |-> lp, next |-> "except"]
    ELSE IF msg.channel = "ack" THEN [prices |-> lp, next |-> "read"]
    ELSE IF msg.channel = "allMids" /\ msg.data = "dict"
         THEN IF msg.mids \in {"missing", "falsy"} THEN [prices |-> lp, next |-> "read"]
              ELSE IF msg.mids = "other" THEN [prices |-> lp, next |-> "except"]
              ELSE [prices |-> ApplyAllMids(lp, msg.payload), next |-> "read"]
    ELSE [prices |-> lp, next |-> "read"]

TextInputs ==
    {[op |-> "text", prices |-> pm, msg |-> m] :
        pm \in {EmptyDict, [s \in {BTC} |-> 500]}, m \in TextMessages}

ApplyText ==
    /\ nin.op = "text"
    /\ ~nout.called
    /\ nout' = Returned(handle_text(nin.prices, nin.msg))
    /\ UNCHANGED <<nin, loopVars, fetchVars, debVars, engVars, clsVars, srvVars, shutVars>>

\* ---- find_cointegrated_pairs: the calls of _analyze_pair

\* The (sym1, sym2) arguments of the calls of _analyze_pair, in order, for
\* symbols = list(self.price_history.keys()), the keys in insertion order.
ScanPairs(symbols) ==
    [k \in 1..Len(PairList(symbols)) |->
        <<symbols[PairList(symbols)[k][1]], symbols[PairList(symbols)[k][2]]>>]

\* The key lists the model scans: every list of distinct symbols, of up to
\* MaxTracked symbols out of four.
ScanCoins == {"SOL", "BTC", "ETH", "ARB"}
PairsInputs ==
    {[op |-> "pairs", symbols |-> tr] :
        tr \in {t \in UNION {[1..n -> {normalize_symbol(c) : c \in ScanCoins}] : n \in 0..MaxTracked} :
                   \A a, b \in DOMAIN t : a # b => t[a] # t[b]}}

ApplyPairs ==
    /\ nin.op = "pairs"
    /\ ~nout.called
    /\ nout' = Returned(ScanPairs(nin.symbols))
    /\ UNCHANGED <<nin, loopVars, fetchVars, debVars, engVars, clsVars, srvVars, shutVars>>

\* ---- replay_prices: POST /api/replay/prices

\* replay_prices on an engine whose histories are hist: update_prices runs on
\* the module-level signal_engine; an exception becomes HTTPException(400)
\* and nothing is undone, otherwise {"ok": True, "count": len(prices)}.
replay_prices(hist, batch) ==
    LET st == UpdateRows(batch, 1, [tracked |-> <<>>, hist |-> hist, recv |-> hist, raised |-> FALSE])
    IN [status |-> IF st.raised THEN "400" ELSE "ok",
        count |-> IF st.raised THEN 0 ELSE Len(batch),
        price_history |-> st.hist]

\* The replays the model makes: batches of one to three rows, on an engine
\* with no history, with one sample of BTC, or with a full window of BTC.
ReplayBatches ==
    HistoryBatches \cup {<<r1, r2, r3>> : r1 \in HistoryRows, r2 \in HistoryRows, r3 \in HistoryRows}
ReplayInputs ==
    {[op |-> "replay", hist |-> h, batch |-> b] :
        h \in {EmptyDict, [s \in {BTC} |-> <<1>>], [s \in {BTC} |-> [i \in 1..lookback_period |-> 1]]},
        b \in ReplayBatches}

ApplyReplay ==
    /\ nin.op = "replay"
    /\ ~nout.called
    /\ nout' = Returned(replay_prices(nin.hist, nin.batch))
    /\ UNCHANGED <<nin, loopVars, fetchVars, debVars, engVars, clsVars, srvVars, shutVars>>

NumericInputs ==
    ConfidenceInputs \cup HalfLifeInputs \cup AnalyzeInputs \cup StreamInputs \cup TextInputs
    \cup PairsInputs \cup ReplayInputs

\* One call, its arguments drawn, not yet made.
NumericInit ==
    /\ nin \in NumericInputs
    /\ nout = NotCalled

\* The numerical functions of the specifications that do not call them.
NumericIdle ==
    /\ nin = [op |-> ""]
    /\ nout = NotCalled

\* ------------------------------------------------------------ properties

Range(s) == {s[k] : k \in DOMAIN s}

\* C1: fetch_all_prices returns a row for every requested symbol, whatever
\* fails: once the call has returned, no requested symbol is missing from out.
C1_EveryRequestedSymbolReturned ==
    fpc = "done" => \A i \in DOMAIN req : \E k \in DOMAIN out : out[k].symbol = req[i]

\* C2: with synthetic generation enabled, the fallback fetch (fetch_price under
\* its retry wrapper) never raises and settles on a price > 0.
C2_FallbackNeverRaises ==
    enable_synth =>
        \A k \in DOMAIN tasks :
            /\ tasks[k].status # "raised"
            /\ tasks[k].status = "ok" => tasks[k].row.price > 0

\* C20: every row fetch_all_prices returns that is not tagged synthetic
\* carries a price > 0.
C20_UntaggedPricePositive ==
    \A k \in DOMAIN out : out[k].source # "synthetic" => out[k].price > 0

\* C3: every requested symbol with a low-latency sample of age <= max_age gets
\* exactly that sample's price under the low-latency tag, and no other row,
\* whatever the cache holds and whatever the stream's state; a sample older
\* than max_age is never used.
C3_FreshQuoteWins ==
    fpc \in {"gather", "done"} =>
        \A i \in DOMAIN req :
            LET s == req[i]
                q == quotes[s]
            IN /\ (q.has /\ q.age <= alchemy_max_age) =>
                      /\ \E k \in DOMAIN out : out[k] = Row(s, q.price, "alchemy_wss")
                      /\ \A k \in DOMAIN out : out[k].symbol = s => out[k].source = "alchemy_wss"
               /\ (q.has /\ q.age > alchemy_max_age) =>
                      \A k \in DOMAIN out : out[k].symbol = s => out[k].source # "alchemy_wss"

\* C3 witness: a call returned the fresh quote's price for BTC while the stream
\* was open and the cache held another price for BTC.
C3_Witness ==
    /\ fpc = "done"
    /\ ws = "open"
    /\ BTC \in DOMAIN last_prices
    /\ quotes[BTC].has /\ quotes[BTC].age = alchemy_max_age
    /\ last_prices[BTC] # quotes[BTC].price
    /\ out = <<Row(BTC, quotes[BTC].price, "alchemy_wss")>>

\* The step in which fetch_all_prices runs its two loops.
FetchStartStep == fpc # "gather" /\ fpc' = "gather"

C5_DebounceOnce ==
    LET n == Len(dtasks)
        last == {i \in 1..n : i = n \/ ~inburst[i + 1]}
    IN /\ \A i \in 1..(n - 1) :
             inburst[i + 1] => dtasks[i].state = "cancelled" /\ ~dtasks[i].fired
       /\ \A i \in 1..n : dtasks[i].fired => i \in last
       /\ \A i \in last : dtasks[i].fired \/ dtasks[i].state = "sleeping"
       /\ \A i \in 1..n : dtasks[i].fired => dtasks[i].left = 0

\* C5 witness: three triggers in one burst, one scan fired and finished.
C5_Witness ==
    /\ Len(dtasks) = 3
    /\ inburst = <<FALSE, TRUE, TRUE>>
    /\ dtasks[3].state = "done" /\ dtasks[3].fired
    /\ Cardinality({i \in DOMAIN dtasks : dtasks[i].fired}) = 1

\* C6: after a successful reconnect in the reader loop the backoff is 1 s
\* again: whenever the reader is in its read loop, backoff is at its start.
C6_BackoffResetsOnSuccess ==
    rpc = "reading" => backoff = BackoffStart

\* C7: each symbol's history is exactly the most recent min(n, lookback_period)
\* samples received for it, in arrival order, and never longer than
\* lookback_period.
C7_HistoryIsRecentWindow ==
    \A s \in DOMAIN price_history :
        LET n == Len(received[s])
            k == IF n < lookback_period THEN n ELSE lookback_period
        IN /\ price_history[s] = SubSeq(received[s], n - k + 1, n)
           /\ Len(price_history[s]) <= lookback_period

\* C7 witness: BTC received more samples than the lookback holds and the
\* oldest, a different price, is gone.
C7_Witness ==
    /\ BTC \in DOMAIN price_history
    /\ Len(received[BTC]) > lookback_period
    /\ received[BTC][1] # received[BTC][2]
    /\ price_history[BTC] = Tail(received[BTC])

\* C8: no signal is returned or recorded for a pair with a leg of fewer than
\* min_samples points; until two symbols have min_samples points each, every
\* scan returns the empty list and records nothing.
C8_NoSignalBelowMinSamples ==
    LET longEnough(s) == s \in DOMAIN price_history /\ Len(price_history[s]) >= min_samples
        legsOk(sig) == longEnough(sig.pair[1]) /\ longEnough(sig.pair[2])
    IN /\ \A k \in DOMAIN signals : legsOk(signals[k])
       /\ \A k \in DOMAIN tracker : legsOk(tracker[k])
       /\ Cardinality({s \in EngineSymbols : longEnough(s)}) < 2 => signals = <<>> /\ tracker = <<>>

\* C8 witness: a scan returned a signal for BTC/ETH while SOL, tracked, was
\* still short of min_samples and appears in no signal.
C8_Witness ==
    /\ SOL \in DOMAIN price_history
    /\ Len(price_history[SOL]) < min_samples
    /\ Len(signals) = 1
    /\ signals[1].pair = <<BTC, ETH>>
    /\ Len(tracker) = 1

\* C9 as stated: the four classes by the chain of comparisons, with the
\* boundary values z = +-z_entry and |z| = z_exit classified HOLD.
C9_ClassificationWithBoundaries ==
    zclass # "" =>
        LET z == zcfg.z
            e == zcfg.entry
            x == zcfg.exit
            az == IF z < 0 THEN -z ELSE z
        IN /\ zclass \in {"SHORT_SPREAD", "LONG_SPREAD", "NEUTRAL", "HOLD"}
           /\ zclass = "SHORT_SPREAD" <=> z > e
           /\ zclass = "LONG_SPREAD" <=> z < -e
           /\ zclass = "NEUTRAL" <=> (~(z > e) /\ ~(z < -e) /\ az < x)
           /\ zclass = "HOLD" <=> (~(z > e) /\ ~(z < -e) /\ ~(az < x))
           /\ (z = e \/ z = -e \/ az = x) => zclass = "HOLD"

\* C9 amended: for non-negative thresholds the class is SHORT_SPREAD iff
\* z > z_entry, LONG_SPREAD iff z < -z_entry, otherwise NEUTRAL iff
\* |z| < z_exit, otherwise HOLD, exactly one class for every z; the boundary
\* values z = +-z_entry and |z| = z_exit are classified HOLD when
\* z_exit <= z_entry.
C9_Classification ==
    zclass # "" =>
        LET z == zcfg.z
            e == zcfg.entry
            x == zcfg.exit
            az == IF z < 0 THEN -z ELSE z
        IN /\ zclass \in {"SHORT_SPREAD", "LONG_SPREAD", "NEUTRAL", "HOLD"}
           /\ zclass = "SHORT_SPREAD" <=> z > e
           /\ zclass = "LONG_SPREAD" <=> z < -e
           /\ zclass = "NEUTRAL" <=> (~(z > e) /\ ~(z < -e) /\ az < x)
           /\ zclass = "HOLD" <=> (~(z > e) /\ ~(z < -e) /\ ~(az < x))
           /\ (x <= e /\ (z = e \/ z = -e \/ az = x)) => zclass = "HOLD"
           /\ (e = 20 /\ x = 5) =>
                 /\ z = 25 => zclass = "SHORT_SPREAD"
                 /\ z = -25 => zclass = "LONG_SPREAD"
                 /\ z = 1 => zclass = "NEUTRAL"
                 /\ z = 10 => zclass = "HOLD"

\* C9 witness: under the default thresholds the boundary z = z_entry was
\* classified HOLD.
C9_Witness ==
    /\ zcfg = [z |-> z_score_entry, entry |-> z_score_entry, exit |-> z_score_exit]
    /\ zclass = "HOLD"

\* C10: the scan returns the accepted signals in non-increasing order of
\* edge, truncated to max_pairs_to_track: min(accepted, max_pairs_to_track)
\* of them, and no accepted signal left out has a larger edge than one
\* returned. The accepted signals are the records the scan appended to the
\* tracker whose confidence exceeds min_confidence.
C10_RankedAndTruncated ==
    LET n == Len(tracker)
        acc == {r \in Range(SubSeq(tracker, n - computed + 1, n)) : r.conf > min_confidence}
        m == IF Cardinality(acc) < max_pairs_to_track THEN Cardinality(acc) ELSE max_pairs_to_track
    IN /\ Len(signals) = m
       /\ Range(signals) \subseteq acc
       /\ Cardinality(Range(signals)) = Len(signals)
       /\ \A k \in 1..(Len(signals) - 1) : signals[k].edge >= signals[k + 1].edge
       /\ \A r \in acc \ Range(signals) : \A k \in DOMAIN signals : r.edge <= signals[k].edge

\* C10 witness: three accepted signals with edges 5, 20, 5 in pair order, the
\* scan returned the two with edges 20 and 5.
C10_Witness ==
    /\ computed = 3
    /\ Len(tracker) = 3
    /\ \A k \in 1..3 : tracker[k].conf > min_confidence
    /\ <<tracker[1].edge, tracker[2].edge, tracker[3].edge>> = <<5, 20, 5>>
    /\ Len(signals) = 2
    /\ <<signals[1].edge, signals[2].edge>> = <<20, 5>>
    /\ signals[2] = tracker[1]

\* The last scan ran on the histories the engine holds now, so quant is what
\* its analyses came to.
ScanIsCurrent == last_scan.done /\ last_scan.hist = price_history

\* Pairs of the current histories, by position in the scan order, with the
\* pair of symbols and the outcome of the numerical analysis.
PairAt(k) == <<tracked[PairList(tracked)[k][1]], tracked[PairList(tracked)[k][2]]>>
OutcomeAt(k) == quant[PairList(tracked)[k]]
LegsLongEnough(k) ==
    /\ Len(price_history[PairAt(k)[1]]) >= min_samples
    /\ Len(price_history[PairAt(k)[2]]) >= min_samples
LastRecords == SubSeq(tracker, Len(tracker) - computed + 1, Len(tracker))

\* C15: update_prices never raises, whatever rows the batch holds.
C15_UpdateNeverRaises == ~update_raised

\* C16: a scan appends exactly one record to the tracker for each pair that
\* passes the sample-count gate and whose analysis builds a signal, whatever
\* its confidence and whether or not it makes the top-K cut, and no record for
\* a pair that was skipped or whose analysis raised.
C16_OneRecordPerBuiltSignal ==
    ScanIsCurrent =>
        LET passing == {k \in 1..Len(PairList(tracked)) :
                           OutcomeAt(k).kind = "signal" /\ LegsLongEnough(k)}
        IN /\ computed = Cardinality(passing)
           /\ \A k \in passing :
                 Cardinality({i \in DOMAIN LastRecords :
                                 LastRecords[i] = [pair |-> PairAt(k), edge |-> OutcomeAt(k).edge,
                                                   conf |-> OutcomeAt(k).conf]}) = 1
           /\ \A i \in DOMAIN LastRecords : \E k \in passing : LastRecords[i].pair = PairAt(k)

\* C16 witness: the last scan built two signals and recorded both, one of
\* them not above min_confidence and so not returned, while a third pair was
\* skipped by a gate.
C16_Witness ==
    /\ ScanIsCurrent
    /\ computed = 2
    /\ Len(signals) = 1
    /\ \E i \in DOMAIN LastRecords : LastRecords[i].conf = min_confidence
    /\ \E k \in 1..Len(PairList(tracked)) : OutcomeAt(k).kind = "skip" /\ LegsLongEnough(k)

\* C17: the tracker log is append-only (every step leaves the old log as a
\* prefix of the new one), and calculate_metrics gives the record count and
\* the means of confidence and edge over the whole log, 0 and 0.0 on an empty
\* log.
C17_TrackerAppendOnly ==
    [][/\ Len(tracker') >= Len(tracker)
       /\ SubSeq(tracker', 1, Len(tracker)) = tracker
       /\ LET m == calculate_metrics(tracker')
              n == Len(tracker')
          IN /\ m.total_signals = n
             /\ n = 0 => m.avg_confidence.num = 0 /\ m.avg_expected_edge.num = 0
             /\ n > 0 => /\ m.avg_confidence.den = n /\ m.avg_expected_edge.den = n
                         /\ m.avg_confidence.num = SumSeq([i \in 1..n |-> tracker'[i].conf])
                         /\ m.avg_expected_edge.num = SumSeq([i \in 1..n |-> tracker'[i].edge])]_vars

\* C17 witness: three records from three scans of the same pair, all kept.
C17_Witness ==
    /\ Len(tracker) = 3
    /\ computed = 1
    /\ tracker[1] = tracker[2] /\ tracker[2] = tracker[3]
    /\ calculate_metrics(tracker).total_signals = 3

C19_PairFailureIsolated ==
    ScanIsCurrent =>
        LET all == 1..Len(PairList(tracked))
            raising == {k \in all : OutcomeAt(k).kind = "raise" /\ LegsLongEnough(k)}
            good == {k \in all : /\ OutcomeAt(k).kind = "signal"
                                 /\ LegsLongEnough(k)
                                 /\ OutcomeAt(k).conf > min_confidence}
            sigOf(k) == [pair |-> PairAt(k), edge |-> OutcomeAt(k).edge, conf |-> OutcomeAt(k).conf]
        IN raising # {} =>
             /\ \A k \in raising :
                   /\ \A i \in DOMAIN signals : signals[i].pair # PairAt(k)
                   /\ \A i \in DOMAIN LastRecords : LastRecords[i].pair # PairAt(k)
             /\ \A k \in good :
                   /\ \E i \in DOMAIN LastRecords : LastRecords[i] = sigOf(k)
                   /\ \/ \E i \in DOMAIN signals : signals[i] = sigOf(k)
                      \/ /\ Len(signals) = max_pairs_to_track
                         /\ \A i \in DOMAIN signals : signals[i].edge >= OutcomeAt(k).edge
             /\ Len(signals) = (IF Cardinality(good) < max_pairs_to_track
                                THEN Cardinality(good) ELSE max_pairs_to_track)

\* C19 witness: the analysis of the first pair raised and the scan returned
\* the signals of the two pairs after it.
C19_Witness ==
    /\ ScanIsCurrent
    /\ Len(PairList(tracked)) = 3
    /\ OutcomeAt(1).kind = "raise" /\ LegsLongEnough(1)
    /\ Len(signals) = 2
    /\ {signals[1].pair, signals[2].pair} = {PairAt(2), PairAt(3)}

\* C11: once a compute_best cycle has completed, whatever signal the cache
\* exposes is the best signal of the most recent scan; after a scan that
\* returned nothing, no signal is exposed.
C11_CacheIsOfLatestScan ==
    (cpc = "idle" /\ cycle.done) =>
        (cache_best # NoSignal => (signals # <<>> /\ cache_best = signals[1]))

\* C12: what a consumer gets from get_current_signal after a scan that
\* returned nothing differs from what it gets before any scan has run (the
\* answer on the cache as ServeInit leaves it).
C12_NoScanYetIsDistinguishable ==
    (cpc = "idle" /\ cycle.done /\ signals = <<>>) =>
        get_current_signal(cache_best) # get_current_signal(NoSignal)

C14_EveryCleanupStepAttempted ==
    xpc \in {"exited", "raised"} =>
        /\ "close_session" \in attempted
        /\ alchemy_on => "stop_alchemy" \in attempted
        /\ "unsubscribe" \in attempted => "close_ws" \in attempted

\* C21: calculate_confidence returns a value in [0, 1] for every p-value in
\* [0, 1], half-life in [0, 30], deviation >= 0 and count >= 0.
C21_ConfidenceInUnitInterval ==
    (nin.op = "confidence" /\ nout.called) => (nout.v >= 0 /\ nout.v <= ConfUnit)

\* C22: the half-life of a spread that is not constant is a number in
\* [0, 30], whatever the fitted decay coefficient: never negative, never above
\* 30, never undefined.
C22_HalfLifeInRange ==
    (nin.op = "half_life" /\ nout.called) =>
        (~nout.v.nan /\ nout.v.v >= 0 /\ nout.v.v <= HalfLifeCap)

\* C23: a pair whose absolute correlation is below min_abs_correlation is
\* skipped before any provider operation is invoked and gives no signal, and
\* no signal carries an undefined correlation, also when the correlation of
\* the pair is undefined.
C23_LowCorrelationSkipped ==
    (nin.op = "analyze" /\ nout.called) =>
        /\ (~nin.corr.nan /\ nin.corr.v < min_abs_correlation /\ nin.corr.v > -min_abs_correlation)
              => (nout.v.calls = <<>> /\ ~nout.v.sig.built)
        /\ nout.v.sig.built => ~nout.v.sig.correlation.nan

\* C24: an engine built with DeepseekQuant returns for every pair what an
\* engine built with LocalQuant returns for it: the same signal or the same
\* absence of a signal.
C24_DeepseekAsLocal ==
    (nin.op = "analyze" /\ nout.called) =>
        nout.v.sig = analyze_numeric("local", nin.corr, nin.coint, nin.coint_check).sig

\* C25: once shutdown has run (the shutdown handler has returned and the
\* fetcher's __aexit__ has been entered), the reader task is cancelled or was
\* never started, and no debounce timer is left pending, so that no
\* reconnect, no write to the price map and no debounced scan can follow.
C25_ShutdownCancelsReaderAndTimer ==
    (cache_closed /\ xpc # "running") =>
        /\ rpc \in {"absent", "cancelled"}
        /\ \A i \in DOMAIN dtasks : dtasks[i].state # "sleeping"

\* The streaming connection is down: no socket, or one the remote end closed.
Disconnected == ws # "open"

\* C26: whenever the streaming connection is down, after a read error, after
\* a remote close, or because the connect at start-up failed, the reader
\* eventually comes to the top of its loop, where the next statement is the
\* reconnect attempt.
C26_ReconnectEventually == Disconnected ~> (rpc = "top")

\* C27: the backoff starts at 1, every wait doubles it up to the cap of 30, on
\* the error path as on the path where the stream ends, nothing else changes
\* it, and so it is always one of 1, 2, 4, 8, 16, 30.
C27_BackoffSequence ==
    /\ backoff = BackoffStart
    /\ [][/\ backoff' \in {1, 2, 4, 8, 16, 30}
          /\ IF rpc \in {"sleep_end", "sleep_err"} /\ rpc' = "top"
             THEN backoff' = (IF backoff * 2 > BackoffCap THEN BackoffCap ELSE backoff * 2)
             ELSE backoff' = backoff]_vars

\* C27 witness: the backoff is at its cap while the reader sleeps after the
\* stream ended without an error.
C27_Witness == backoff = BackoffCap /\ rpc = "sleep_end"

\* C28: after a sequence of stream updates the price of '<coin>-USD-PERP' is
\* the price of the last update that carried a parsable price for the coin,
\* and its timestamp the time of that update; a symbol no update carried a
\* parsable price for keeps the price and the timestamp it had (or has none);
\* an entry that cannot be parsed changes nothing and does not keep the other
\* entries of its message from being applied.
C28_LatestWriteWins ==
    (nin.op = "mids" /\ nout.called) =>
        \A c \in Coins :
            LET s == normalize_symbol(c)
                wrote == {k \in DOMAIN nin.msgs : c \in DOMAIN nin.msgs[k] /\ nin.msgs[k][c].ok}
                last == CHOOSE k \in wrote : \A j \in wrote : j <= k
            IN IF wrote = {}
               THEN /\ s \in DOMAIN nout.v.prices <=> s \in DOMAIN nin.prices
                    /\ s \in DOMAIN nout.v.ts <=> s \in DOMAIN nin.prices
                    /\ s \in DOMAIN nin.prices =>
                          (nout.v.prices[s] = nin.prices[s] /\ nout.v.ts[s] = 0)
               ELSE /\ s \in DOMAIN nout.v.prices /\ s \in DOMAIN nout.v.ts
                    /\ nout.v.prices[s] = nin.msgs[last][c].px
                    /\ nout.v.ts[s] = last

\* C28 witness: two messages on a map holding an older BTC price; the second
\* message overwrote BTC once more and carried an unparsable entry for ETH,
\* which kept the price and the time of the first message.
C28_Witness ==
    /\ nin.op = "mids" /\ nout.called
    /\ nin.prices = [s \in {BTC} |-> 500]
    /\ Len(nin.msgs) = 2
    /\ nin.msgs[1] = [c \in Coins |-> [ok |-> TRUE, px |-> 700]]
    /\ nin.msgs[2] = [c \in Coins |-> IF c = "BTC" THEN [ok |-> TRUE, px |-> 0] ELSE [ok |-> FALSE, px |-> 0]]
    /\ nout.v.prices = [s \in Symbols |-> IF s = BTC THEN 0 ELSE 700]
    /\ nout.v.ts = [s \in Symbols |-> IF s = BTC THEN 2 ELSE 1]

\* C29: a text message that is not valid JSON, is valid JSON but not an
\* object, or has a missing or ill-typed channel, data or mids field is
\* dropped: the price map is unchanged and the reader goes on to the next
\* message of the same connection.
C29_MalformedMessageDropped ==
    (nin.op = "text" /\ nout.called) =>
        LET m == nin.msg
            malformed == \/ m.json # "object"
                         \/ m.channel \in {"missing", "other"}
                         \/ (m.channel = "allMids" /\ (m.data # "dict" \/ m.mids # "dict"))
        IN malformed => (nout.v.next = "read" /\ nout.v.prices = nin.prices)

\* C30: the fallback fetches of a call are started together, one per missing
\* symbol, and are independent: an attempt of one fetch changes no other
\* fetch, and when the call returns, the row of every fetch that succeeded is
\* in the output, whatever became of the others.
C30_FallbackIndependent ==
    [][/\ FetchStartStep =>
             /\ Len(tasks') = Len(missing')
             /\ \A k \in DOMAIN tasks' : tasks'[k].attempts = 0 /\ tasks'[k].status = "pending"
       /\ (fpc = "gather" /\ fpc' = "gather") =>
             \A k \in DOMAIN tasks : \A j \in DOMAIN tasks :
                 (j # k /\ tasks'[k] # tasks[k]) => tasks'[j] = tasks[j]
       /\ (fpc = "gather" /\ fpc' = "done") =>
             \A k \in DOMAIN tasks :
                 tasks[k].status = "ok" => \E j \in DOMAIN out' : out'[j] = tasks[k].row]_vars

\* C30 witness: a call for BTC and ETH, both fetched over HTTP, returned the
\* row of ETH alone: the fetch of BTC, started first, failed for good.
C30_Witness ==
    /\ fpc = "done"
    /\ req = <<BTC, ETH>>
    /\ Len(out) = 1
    /\ out[1].symbol = ETH /\ out[1].source = "hyperliquid_http"

\* C32: a scan over k tracked symbols analyses every unordered pair of them
\* exactly once, k(k-1)/2 analyses, the symbol tracked earlier as first leg:
\* no pair twice, none in both orders, no symbol with itself.
C32_EachPairOnce ==
    (nin.op = "pairs" /\ nout.called) =>
        LET tr == nin.symbols
            k == Len(tr)
            calls == nout.v
        IN /\ 2 * Len(calls) = k * (k - 1)
           /\ \A a, b \in 1..k :
                 Cardinality({m \in DOMAIN calls : calls[m] = <<tr[a], tr[b]>>})
                    = (IF a < b THEN 1 ELSE 0)
           /\ \A m \in DOMAIN calls : \E a, b \in 1..k : calls[m] = <<tr[a], tr[b]>>

\* C32 witness: a scan over SOL, BTC, ETH, tracked in this order, made its
\* three analyses.
C32_Witness ==
    /\ nin.op = "pairs"
    /\ nin.symbols = <<SOL, BTC, ETH>>
    /\ nout.called
    /\ nout.v = <<<<SOL, BTC>>, <<SOL, ETH>>, <<BTC, ETH>>>>

C34_ConfidenceAboveThreshold ==
    \A i \in DOMAIN signals : signals[i].conf > min_confidence

\* C34 witness: the last scan built a signal whose confidence equals
\* min_confidence and one above it, and returned the second alone.
C34_Witness ==
    /\ ScanIsCurrent
    /\ Len(signals) = 1
    /\ \E i \in DOMAIN LastRecords :
          /\ LastRecords[i].conf = min_confidence
          /\ LastRecords[i].pair # signals[1].pair

\* C35: for a request of distinct symbols, the list fetch_all_prices returns
\* holds at most one row for each requested symbol and no row for a symbol
\* that was not requested.
C35_OneRowPerRequestedSymbol ==
    (fpc = "done" /\ \A a, b \in DOMAIN req : a # b => req[a] # req[b]) =>
        \A s \in Symbols :
           Cardinality({k \in DOMAIN out : out[k].symbol = s})
              <= (IF s \in Range(req) THEN 1 ELSE 0)

\* C35 witness: a call for BTC and ETH returned two rows, BTC from the
\* low-latency feed and ETH fetched over HTTP.
C35_Witness ==
    /\ fpc = "done"
    /\ req = <<BTC, ETH>>
    /\ Len(out) = 2
    /\ out[1].symbol = BTC /\ out[1].source = "alchemy_wss"
    /\ out[2].symbol = ETH /\ out[2].source = "hyperliquid_http"

\* C37: while the stream is open, a price the stream wrote for a symbol is
\* not overwritten by a synthetic or default value by a fallback fetch of that
\* symbol that started before the stream update and completes after it. A
\* pending fetch_price task of a symbol that is in last_prices started when
\* the symbol was missing, so (no other task being for the symbol) the price
\* it finds there was written by the stream; when the task completes the
\* price stays, or becomes a price an HTTP response carries.
C37_StreamPriceKept ==
    [][\A k \in DOMAIN tasks :
          (/\ fpc = "gather" /\ fpc' = "gather"
           /\ ws = "open"
           /\ tasks[k].status = "pending" /\ tasks'[k].status = "ok"
           /\ missing[k] \in DOMAIN last_prices
           /\ \A j \in DOMAIN tasks : j # k => missing[j] # missing[k])
          => \/ last_prices'[missing[k]] = last_prices[missing[k]]
             \/ last_prices'[missing[k]] \in HttpPrices \ {0}]_vars

\* C40: source tags are truthful: a row tagged 'hyperliquid_http' carries a
\* price received in the fallback response, a row tagged 'hyperliquid_ws' a
\* price the stream wrote, and so a price made by jitter or the default is
\* tagged 'synthetic'. Stated on the values: the stream writes prices of
\* WsPrices, a response carries a non-zero price of HttpPrices.
C40_SourceTagsTruthful ==
    LET rows == Range(out) \cup {tasks[k].row : k \in {j \in DOMAIN tasks : tasks[j].status = "ok"}}
    IN \A r \in rows :
          /\ r.source = "hyperliquid_http" => r.price \in HttpPrices \ {0}
          /\ r.source = "hyperliquid_ws" => r.price \in WsPrices

\* C38: a trigger() that arrives after the delay has elapsed, while the fired
\* computation is in progress, does not abort it: a task whose compute_best
\* was called is computing or done, never cancelled.
C38_FiredComputeCompletes ==
    \A i \in DOMAIN dtasks : dtasks[i].fired => dtasks[i].state \in {"computing", "done"}

\* Index of the first row of a batch that raises, Len(batch) + 1 if none does.
FirstBad(batch) ==
    IF \E i \in DOMAIN batch : ~batch[i].ok
    THEN CHOOSE i \in DOMAIN batch : ~batch[i].ok /\ \A j \in 1..(i - 1) : batch[j].ok
    ELSE Len(batch) + 1

\* The prices of the rows of a batch for symbol s, in order.
RECURSIVE PricesOf(_, _)
PricesOf(rows, s) ==
    IF rows = <<>> THEN <<>>
    ELSE (IF Head(rows).symbol = s THEN <<Head(rows).price>> ELSE <<>>) \o PricesOf(Tail(rows), s)

\* The last n elements of a sequence.
LastN(seq, n) == SubSeq(seq, Max(1, Len(seq) - n + 1), Len(seq))

\* C39: when update_prices raises on row k of a batch, the rows before k
\* remain appended to the histories and row k and the rows after it are not
\* applied; the histories stay within lookback_period; the replay endpoint
\* reports the error (400) and the engine keeps that partly applied state. A
\* batch without a bad row is applied whole and reported ok.
C39_PartialBatchKept ==
    (nin.op = "replay" /\ nout.called) =>
        LET k == FirstBad(nin.batch)
            before == SubSeq(nin.batch, 1, k - 1)
            old(s) == IF s \in DOMAIN nin.hist THEN nin.hist[s] ELSE <<>>
            now(s) == IF s \in DOMAIN nout.v.price_history THEN nout.v.price_history[s] ELSE <<>>
        IN /\ (nout.v.status = "400") <=> (k <= Len(nin.batch))
           /\ \A s \in EngineSymbols :
                 /\ now(s) = LastN(old(s) \o PricesOf(before, s), lookback_period)
                 /\ Len(now(s)) <= lookback_period

\* C39 witness: on a full window of BTC, a replay of three rows whose second
\* raises was answered 400, the first row appended (the oldest sample
\* evicted) and the third not.
C39_Witness ==
    /\ nin.op = "replay"
    /\ nin.hist = [s \in {BTC} |-> [i \in 1..lookback_period |-> 1]]
    /\ nin.batch = <<PriceRow(BTC, 2), BadRow(ETH), PriceRow(BTC, 1)>>
    /\ nout.called
    /\ nout.v.status = "400"
    /\ nout.v.price_history[BTC] = Append([i \in 1..(lookback_period - 1) |-> 1], 2)

\* C36: at every scan, for every pair that is evaluated, the windows of the
\* two legs are aligned: they have the same length and the samples at the
\* same position were appended by the same batch, whatever batches came
\* before (batches that omit a tracked symbol or bring a symbol in late
\* included). In SpecAlign a sample is the number of its batch.
C36_WindowsAligned ==
    ScanIsCurrent =>
        \A k \in 1..Len(PairList(tracked)) :
           LegsLongEnough(k) => price_history[PairAt(k)[1]] = price_history[PairAt(k)[2]]

\* C31: an exception raised within one iteration of market_data_loop (by the
\* fetch, by update_prices or by the cache write) or of
\* signal_generation_loop (by compute_best) does not end the loop: neither
\* loop ever ends, and an iteration in which a step raised is followed, once
\* the sleep of update_interval is over, by the next iteration.
C31_LoopsSurviveErrors ==
    /\ [](mloop.pc # "ended" /\ sloop.pc # "ended")
    /\ \A n \in 1..(MaxIterations - 1) :
          /\ (mloop.iter = n /\ mloop.failed # "") ~> (mloop.iter = n + 1 /\ mloop.pc = "fetch")
          /\ (sloop.iter = n /\ sloop.failed # "") ~> (sloop.iter = n + 1 /\ sloop.pc = "compute")

\* C31 witness: the market loop went on after an iteration whose
\* update_prices raised on its second row (BTC has a sample more than ETH),
\* and the signal loop is in a later iteration after a compute_best that
\* raised before its cache write.
C31_Witness ==
    /\ mloop.iter > 1
    /\ ETH \in DOMAIN received /\ Len(received[BTC]) > Len(received[ETH])
    /\ sloop.iter > 1 /\ sloop.pc = "compute"
    /\ cycle.save = "ok" /\ ~cycle.done

\* -------------------------------------------------------- specifications

\* The aggregator: fetch_all_prices calls with their fallback tasks, while the
\* reader applies stream updates and the remote end may close the stream.
InitFetch == FetcherInit /\ DebouncerInit /\ EngineInit /\ ClassifyIdle /\ ServeInit /\ ShutdownInit /\ LoopIdle /\ NumericIdle
NextFetch == FetchStart \/ HttpAttempt \/ FetchReturn \/ ReaderMids \/ ReaderStreamEnd
SpecFetch == InitFetch /\ [][NextFetch]_vars

\* The stream reader alone, with its reconnects and backoff.
NextReader == ReaderConnect \/ ReaderMids \/ ReaderError \/ ReaderStreamEnd \/ ReaderWake
SpecReader == InitFetch /\ [][NextReader]_vars

\* The reader with its scheduling: a sleep returns, and the statement at the
\* top of the loop is executed.
SpecReaderLive == SpecReader /\ WF_vars(ReaderWake) /\ WF_vars(ReaderConnect)

\* The fetcher leaving its async with block while the reader runs.
NextShutdown ==
    \/ ReaderConnect \/ ReaderMids \/ ReaderError \/ ReaderStreamEnd \/ ReaderWake
    \/ AexitBegin \/ AexitUnsubscribe \/ AexitCloseWs \/ AexitStopAlchemy \/ AexitCloseSession
SpecShutdown == InitFetch /\ [][NextShutdown]_vars

\* The debounced scan driver.
InitDebounce == FetcherIdle /\ DebouncerInit /\ EngineInit /\ ClassifyIdle /\ ServeInit /\ ShutdownInit /\ LoopIdle /\ NumericIdle
NextDebounce == Trigger \/ Tick \/ Fire \/ ComputeEnd
SpecDebounce == InitDebounce /\ [][NextDebounce]_vars

\* The engine's rolling history.
InitEngine == FetcherIdle /\ DebouncerInit /\ EngineInit /\ ClassifyIdle /\ ServeInit /\ ShutdownInit /\ LoopIdle /\ NumericIdle
NextHistory == UpdateHistory
SpecHistory == InitEngine /\ [][NextHistory]_vars

\* The engine's scan between batches.
NextScan == UpdateScan \/ Scan
SpecScan == InitEngine /\ [][NextScan]_vars

\* Scans between batches that may lack a symbol.
NextAlign == UpdateAlign \/ Scan
SpecAlign == InitEngine /\ [][NextAlign]_vars

\* The two loops of startup_event, each step of an iteration returning or
\* raising.
InitLoop == FetcherIdle /\ DebouncerInit /\ EngineInit /\ ClassifyIdle /\ ServeInit /\ ShutdownInit /\ LoopInit /\ NumericIdle
NextLoop == MarketFetch \/ MarketCache \/ MarketSleep \/ SignalStart \/ SignalCompute \/ SignalSleep
SpecLoop == InitLoop /\ [][NextLoop]_vars

\* The loops, every sleep coming to its end.
SpecLoopLive == SpecLoop /\ WF_vars(MarketSleep) /\ WF_vars(SignalSleep)

\* compute_best cycles between batches, with the serving cache.
NextServe ==
    \/ UpdateServe \/ ComputeStart \/ ComputeSave \/ ComputeCache
    \/ ComputeBroadcastWs \/ ComputeBroadcastSse \/ CacheExpire
SpecServe == InitEngine /\ [][NextServe]_vars

\* The classification of z-scores under each threshold pair.
InitClassify == FetcherIdle /\ DebouncerInit /\ EngineInit /\ ClassifyInit /\ ServeInit /\ ShutdownInit /\ LoopIdle /\ NumericIdle
NextClassify == Classify \/ NextZ
SpecClassify == InitClassify /\ [][NextClassify]_vars
\* The numerical functions, each called once on arguments drawn at the start.
InitNumeric == FetcherIdle /\ DebouncerInit /\ EngineInit /\ ClassifyIdle /\ ServeInit /\ ShutdownInit /\ LoopIdle /\ NumericInit
NextNumeric ==
    \/ ApplyConfidence \/ ApplyHalfLife \/ ApplyAnalyze \/ ApplyMids \/ ApplyText
    \/ ApplyPairs \/ ApplyReplay
SpecNumeric == InitNumeric /\ [][NextNumeric]_vars
\* Shutdown while the loops run: the debounced triggers of market_data_loop,
\* the reader's reconnects, the shutdown handler, and __aexit__ being entered.
InitStop == FetcherInit /\ ~alchemy_on /\ enable_synth /\ DebouncerInit /\ EngineInit /\ ClassifyIdle /\ ServeInit /\ ShutdownInit /\ LoopIdle /\ NumericIdle
NextStop ==
    \/ LoopTrigger \/ Tick \/ Fire \/ ComputeEnd
    \/ ReaderConnect \/ ReaderError \/ ReaderStreamEnd \/ ReaderWake
    \/ AexitBegin \/ ShutdownEvent
SpecStop == InitStop /\ [][NextStop]_vars
====
